---- MODULE Spec2Model ----
(***************************************************************************)
(* Model of liangmu_history: the trash (soft-delete) lifecycle, the        *)
(* per-source-type metadata cache, the session-log parsers with their      *)
(* filter stages, and turn-based pagination.                               *)
(*                                                                         *)
(* Optional values (Rust Option<T>) are modelled by a distinguished empty  *)
(* string; a trash directory name "{sessionId}_{timestamp}" is the tuple   *)
(* <<sessionId, timestamp>> and the empty string is the empty tuple.       *)
(***************************************************************************)
EXTENDS Integers, Sequences, FiniteSets, TLC

VARIABLES
    cli,        \* the source type whose provider the trash calls are made on
    live,       \* session log files outside the trash: path -> content, NoFile if absent
    side,       \* file-history/<sessionId> sidecar directories: path -> content
    trashDir,   \* whether <base>/trash exists
    dirs,       \* subdirectories of trash/: dir name -> [files, fh]
    manifest,   \* trash/manifest.json: [exists, items]
    now,        \* the system clock, in seconds
    ticks,      \* how often the clock has advanced
    last,       \* the last host call: operation, arguments, result, state before it
    pc,         \* overlapping calls: the position of each caller in its handler
    loc,        \* overlapping calls: the handler's local variables of each caller
    calls,      \* overlapping calls: how many calls have been started
    overlap,    \* overlapping calls: whether a call ever started during another
    cache,      \* history_cache table per source type: path -> row
    conns,      \* DB_CONNECTIONS: the source types that hold a connection
    shadow,     \* per source type and path, the mtime of the last write still in force
    cres,       \* the last cache call and its result
    logdir,     \* the log directory handed to the parsers: file name -> lines
    pres,       \* the last provider listing call and its result
    msgs,       \* the messages of the session being paginated
    page,       \* the last load_session_paginated call and its result
    store,      \* the session logs on disk: file name -> [present, cwd, mtime]
    dorder,     \* the directory entries in the order read_dir yields them
    pcall,      \* the last project listing call and its result
    kv,         \* kv_store per source type: the recorded last_startup_time
    files,      \* the session logs of one project: file name -> [present, mtime, count]
    rcall,      \* the last cache-assisted host call, its result and the state before it
    lru,        \* SESSION_CACHE: [key, val] entries, most recently used first
    dblock,     \* the mutex of DB_CONNECTIONS: [holder, opened]
    mbytes      \* whether the bytes of manifest.json parse as a manifest

trashVars == <<cli, live, side, trashDir, dirs, manifest, now, ticks, last>>
raceVars  == <<pc, loc, calls, overlap>>
cacheVars == <<cache, conns, shadow, cres>>
parseVars == <<logdir, pres>>
pageVars  == <<msgs, page>>
projVars  == <<store, dorder, pcall>>
hostVars  == <<kv, files, rcall, lru, dblock, mbytes>>
vars == <<trashVars, raceVars, cacheVars, parseVars, pageVars, projVars, hostVars>>

----------------------------------------------------------------------------
(* Bounds of the model.                                                    *)

MaxTicks == 2
MaxCalls == 3
\* file modification times, in seconds
MaxMtime == 2
\* lines in the log directory, over all its files
MaxLines == 3
\* messages in a session
MaxMsgs == 3
\* the largest usize, at a reduced width: only the wrap at the top matters
UsizeMax == 7
\* the largest i64, at a reduced width (2^26 - 1): two years of seconds fit
I64Max == 67108863
LruCapacity == 2
MaxMemCalls == 4

----------------------------------------------------------------------------
(* The universe of session log files.                                      *)

CliTypes == {"claude", "codex"}

NoFile == ""
NoPath == ""

Paths == {"d1/a.jsonl", "d2/a.jsonl", "d1/rollout-a.jsonl"}

\* Path::parent().file_name()
ParentName(p) == IF p = "d2/a.jsonl" THEN "d2" ELSE "d1"

\* Path::file_name()
FileName(p) == IF p = "d1/rollout-a.jsonl" THEN "rollout-a.jsonl" ELSE "a.jsonl"

\* Path::file_stem()
FileStem(p) == IF p = "d1/rollout-a.jsonl" THEN "rollout-a" ELSE "a"

\* str::replace("rollout-", "")
StripRollout(s) == IF s = "rollout-a" THEN "a" ELSE s

SessionId(c, p) == IF c = "codex" THEN StripRollout(FileStem(p)) ELSE FileStem(p)

\* the bytes a log file (or sidecar) holds are identified by where they were first written
ContentOf(p) == p

\* the working directory scraped by get_cwd_fast; the "unknown directory" label otherwise
ScrapedCwd(p) == IF p = "d2/a.jsonl" THEN "unknown" ELSE "C:\\proj"

ProjectName(c, p) == IF c = "codex" THEN ScrapedCwd(p) ELSE ParentName(p)

----------------------------------------------------------------------------
(* Trash state and helpers.                                                *)

EmptyName == <<>>
ItemName(sid, ts) == <<sid, ts>>

EmptyFn == [x \in {} |-> x]
EmptyDir == [files |-> EmptyFn, fh |-> NoFile]
NoManifest == [exists |-> FALSE, items |-> <<>>]

Cur == [live |-> live, side |-> side, trashDir |-> trashDir,
        dirs |-> dirs, manifest |-> manifest]

Put(f, k, v) == [x \in DOMAIN f \cup {k} |-> IF x = k THEN v ELSE f[x]]
Drop(f, ks) == [x \in DOMAIN f \ ks |-> f[x]]

HasEntry(m, d) == \E i \in 1..Len(m.items) : m.items[i].dir_name = d

\* Iterator::find: the first item with that dir_name
FirstEntry(m, d) ==
    m.items[CHOOSE i \in 1..Len(m.items) :
                /\ m.items[i].dir_name = d
                /\ \A j \in 1..(i - 1) : m.items[j].dir_name # d]

\* Vec::retain(|i| i.dir_name != dir_name)
RetainOthers(items, d) == SelectSeq(items, LAMBDA i : i.dir_name # d)

\* parent/file-history/<sessionId>, the sidecar directory of a Claude session
HistoryDir(p) ==
    CASE p = "d1/a.jsonl" -> "d1/file-history/a"
      [] p = "d2/a.jsonl" -> "d2/file-history/a"
      [] OTHER -> "d1/file-history/rollout-a"

HistoryDirs == {HistoryDir(p) : p \in Paths}

----------------------------------------------------------------------------
(* delete_session: the whole handler on a trash state S at clock t.        *)

\* the sidecar step of ClaudeProvider::delete_session on directory dir of S
MoveSidecarIn(S, p, dir) ==
    LET h == HistoryDir(p) IN
    IF S.side[h] = NoFile
    THEN [side |-> S.side, dir |-> dir, ofh |-> NoPath]
    ELSE IF dir.fh = NoFile
         THEN [side |-> [S.side EXCEPT ![h] = NoFile],
               dir  |-> [dir EXCEPT !.fh = S.side[h]],
               ofh  |-> h]
         \* fs::rename onto an existing non-empty directory fails; .ok() drops the error
         ELSE [side |-> S.side, dir |-> dir, ofh |-> h]

\* a variant that forgets the items already listed
ItemsForDeleteForgetful(S) == <<>>

\* the manifest as delete_session reads it: a missing manifest is an empty one
ItemsForDelete(S) == IF S.manifest.exists THEN S.manifest.items ELSE <<>>

\* a variant that creates the trash directory before it looks at the path
DeleteMissingMkdir(S) == [ok |-> FALSE, st |-> [S EXCEPT !.trashDir = TRUE]]

\* the early return for a path that does not exist
DeleteMissing(S) == [ok |-> FALSE, st |-> S]

DeleteSession(S, c, p, t) ==
    IF S.live[p] = NoFile
    THEN DeleteMissing(S)
    ELSE
      LET sid  == SessionId(c, p)
          name == ItemName(sid, t)
          dir0 == IF name \in DOMAIN S.dirs THEN S.dirs[name] ELSE EmptyDir
          \* fs::rename replaces a file of the same name
          dir1 == [dir0 EXCEPT !.files = Put(dir0.files, FileName(p), S.live[p])]
          mv   == IF c = "claude"
                  THEN MoveSidecarIn(S, p, dir1)
                  ELSE [side |-> S.side, dir |-> dir1, ofh |-> NoPath]
          item == [session_id |-> sid,
                   project_name |-> ProjectName(c, p),
                   deleted_at |-> t,
                   dir_name |-> name,
                   original_file |-> p,
                   original_file_history |-> mv.ofh]
      IN [ok |-> TRUE,
          st |-> [live |-> [S.live EXCEPT ![p] = NoFile],
                  side |-> mv.side,
                  trashDir |-> TRUE,
                  dirs |-> Put(S.dirs, name, mv.dir),
                  manifest |-> [exists |-> TRUE,
                                items |-> Append(ItemsForDelete(S), item)]]]

----------------------------------------------------------------------------
(* restore_from_trash: every outcome the handler can have on S.            *)

\* the sidecar step of restore_from_trash
MoveSidecarOut(sd, item, dir) ==
    IF item.original_file_history # NoPath /\ dir.fh # NoFile
       /\ sd[item.original_file_history] = NoFile
    THEN [sd EXCEPT ![item.original_file_history] = dir.fh]
    ELSE sd

\* the state after restoring item from its directory, file fn moved back ("" if none)
RestoreWith(S, d, item, fn) ==
    LET dir == S.dirs[d] IN
    [live |-> IF fn = NoFile THEN S.live
              ELSE [S.live EXCEPT ![item.original_file] = dir.files[fn]],
     side |-> MoveSidecarOut(S.side, item, dir),
     trashDir |-> S.trashDir,
     dirs |-> Drop(S.dirs, {d}),
     manifest |-> [exists |-> TRUE, items |-> RetainOthers(S.manifest.items, d)]]

\* fs::read_dir yields the entries in no specified order: any .jsonl may come first
FirstLogChoices(dir) == IF DOMAIN dir.files = {} THEN {NoFile} ELSE DOMAIN dir.files

\* the manifest checks: the manifest exists and has an entry with that dir_name
RestoreLookup(m, d) ==
    IF ~m.exists THEN "no_manifest"
    ELSE IF ~HasEntry(m, d) THEN "no_entry"
    ELSE "found"

\* a variant that never looks for the subdirectory
ItemDirExistsAlways(ds, d) == TRUE

\* item_dir.exists()
ItemDirExists(ds, d) == d \in DOMAIN ds

RestoreFromTrash(S, d) ==
    IF RestoreLookup(S.manifest, d) # "found" THEN {[ok |-> FALSE, st |-> S]}
    ELSE IF ~ItemDirExists(S.dirs, d) THEN {[ok |-> FALSE, st |-> S]}
    ELSE {[ok |-> TRUE, st |-> RestoreWith(S, d, FirstEntry(S.manifest, d), fn)] :
            fn \in FirstLogChoices(S.dirs[d])}

----------------------------------------------------------------------------
(* permanently_delete and cleanup_expired_trash.                           *)

\* trash_dir.join(dir_name); the empty name joins to the trash directory itself
PermanentlyDelete(S, d) ==
    LET S1 == IF d = EmptyName
              THEN IF S.trashDir
                   THEN [S EXCEPT !.trashDir = FALSE, !.dirs = EmptyFn,
                                  !.manifest = NoManifest]
                   ELSE S
              ELSE [S EXCEPT !.dirs = Drop(S.dirs, {d})]
    IN [ok |-> TRUE,
        st |-> IF S1.manifest.exists
               THEN [S1 EXCEPT !.manifest.items = RetainOthers(S1.manifest.items, d)]
               ELSE S1]

\* i64 arithmetic of a build without overflow checks
I64Wrap(n) == ((n + I64Max + 1) % (2 * (I64Max + 1))) - (I64Max + 1)

I64Overflows(n) == n > I64Max \/ n < -(I64Max + 1)

\* whether now - (retention_days * 24 * 3600) leaves the i64 range on the way
CutoffOverflows(t, days) ==
    \/ I64Overflows(days * 24)
    \/ I64Overflows(I64Wrap(days * 24) * 3600)
    \/ I64Overflows(t - I64Wrap(I64Wrap(days * 24) * 3600))

\* let cutoff = now - (retention_days * 24 * 3600), as the machine computes it
Cutoff(t, days) == I64Wrap(t - I64Wrap(I64Wrap(days * 24) * 3600))

Expired(items, cutoff) == SelectSeq(items, LAMBDA i : i.deleted_at < cutoff)
Unexpired(items, cutoff) == SelectSeq(items, LAMBDA i : ~(i.deleted_at < cutoff))

\* checks tells whether the build has overflow checks: it then panics where the
\* other build wraps
CleanupExpiredTrash(S, t, days, checks) ==
    IF ~S.manifest.exists THEN [ok |-> TRUE, removed |-> 0, st |-> S]
    ELSE IF checks /\ CutoffOverflows(t, days) THEN [ok |-> FALSE, removed |-> 0, st |-> S]
    ELSE LET gone == Expired(S.manifest.items, Cutoff(t, days)) IN
         [ok |-> TRUE,
          removed |-> Len(gone),
          st |-> [S EXCEPT
                    !.dirs = Drop(S.dirs, {gone[i].dir_name : i \in 1..Len(gone)}),
                    !.manifest.items = Unexpired(S.manifest.items, Cutoff(t, days))]]

----------------------------------------------------------------------------
(* The host calls on the trash, one at a time.                             *)

RetentionDays == {0, 1}
Jumps == {1}

\* a name that no delete_session ever produced
StrangerName == ItemName("zz", 0)

\* the dir_name arguments the host passes
DirInputs ==
    DOMAIN dirs \cup {manifest.items[i].dir_name : i \in 1..Len(manifest.items)}
                \cup {StrangerName, EmptyName}

InitState ==
    [live |-> [p \in Paths |-> NoFile], side |-> [h \in HistoryDirs |-> NoFile],
     trashDir |-> FALSE, dirs |-> EmptyFn, manifest |-> NoManifest]

Call(op, p, d, days, ok, removed) ==
    [op |-> op, path |-> p, dir |-> d, days |-> days, at |-> now, ok |-> ok,
     removed |-> removed, pre |-> Cur, chained |-> FALSE, pre2 |-> InitState]

Become(S) ==
    /\ live' = S.live
    /\ side' = S.side
    /\ trashDir' = S.trashDir
    /\ dirs' = S.dirs
    /\ manifest' = S.manifest

TrashIdle ==
    /\ UNCHANGED raceVars
    /\ UNCHANGED cacheVars
    /\ UNCHANGED parseVars
    /\ UNCHANGED pageVars
    /\ UNCHANGED projVars
    /\ UNCHANGED hostVars

Delete(p) ==
    LET r == DeleteSession(Cur, cli, p, now) IN
    /\ Become(r.st)
    /\ last' = Call("delete", p, ItemName(SessionId(cli, p), now), 0, r.ok, 0)
    /\ UNCHANGED <<cli, now, ticks>>
    /\ TrashIdle

\* a restore that directly follows the successful delete that made d keeps that
\* delete's starting state
Restore(d) ==
    \E r \in RestoreFromTrash(Cur, d) :
        LET follows == last.op = "delete" /\ last.ok /\ last.dir = d /\ r.ok IN
        /\ Become(r.st)
        /\ last' = [Call("restore", IF follows THEN last.path ELSE NoPath, d, 0, r.ok, 0) EXCEPT
                        !.chained = follows,
                        !.pre2 = IF follows THEN last.pre ELSE InitState]
        /\ UNCHANGED <<cli, now, ticks>>
        /\ TrashIdle

Purge(d) ==
    LET r == PermanentlyDelete(Cur, d) IN
    /\ Become(r.st)
    /\ last' = Call("purge", NoPath, d, 0, r.ok, 0)
    /\ UNCHANGED <<cli, now, ticks>>
    /\ TrashIdle

Cleanup(days) ==
    \E checks \in BOOLEAN :
        LET r == CleanupExpiredTrash(Cur, now, days, checks) IN
        /\ Become(r.st)
        /\ last' = Call("cleanup", NoPath, EmptyName, days, r.ok, r.removed)
        /\ UNCHANGED <<cli, now, ticks>>
        /\ TrashIdle

Tick(j) ==
    /\ ticks < MaxTicks
    /\ now' = now + j
    /\ ticks' = ticks + 1
    /\ UNCHANGED <<cli, live, side, trashDir, dirs, manifest, last>>
    /\ TrashIdle

----------------------------------------------------------------------------
(* Initial states.                                                         *)

Procs == {1, 2}

NoLoc == [op |-> "none", path |-> NoPath, dir |-> EmptyName, items |-> <<>>,
          item |-> <<>>, res |-> "none", wrote |-> FALSE]

Resting == {"idle", "done"}

RaceInit ==
    /\ pc = [q \in Procs |-> "idle"]
    /\ loc = [q \in Procs |-> NoLoc]
    /\ calls = 0
    /\ overlap = FALSE

\* the cli_type strings the cache is called with, one history_cache table each
CacheClis == {"claude", "codex"}
CachePaths == {"d1/a.jsonl", "d2/a.jsonl"}
Mtimes == 0..MaxMtime
\* the mtimes a caller observes on disk
Observed == 0..(MaxMtime + 1)

NoCall == [op |-> "init", cli |-> "claude", path |-> NoPath, mtime |-> 0,
           observed |-> 0, result |-> FALSE]

\* no connection is open and every history_cache table is empty; shadow records,
\* for a path of a source type, the mtime of the update_cache_entry still in force
CacheInit ==
    /\ cache = [c \in CacheClis |-> {}]
    /\ conns = {}
    /\ shadow = EmptyFn
    /\ cres = NoCall

\* the .jsonl files of the log directory
LogNames == {"s1.jsonl", "rollout-s2.jsonl", "agent-s3.jsonl"}

NoListing == [op |-> "init", id |-> NoPath, limit |-> 0, result |-> <<>>]

\* every log file exists and is zero bytes long
ParseInit ==
    /\ logdir = [n \in LogNames |-> <<>>]
    /\ pres = NoListing

NoPage == [kind |-> "none", first |-> <<>>, last |-> <<>>, has_middle |-> FALSE,
           total_turns |-> 0, total_messages |-> 0]

NoPageCall == [op |-> "init", first_turns |-> 0, last_turns |-> 0, out |-> NoPage]

PageInit ==
    /\ msgs = <<>>
    /\ page = NoPageCall

NoCwd == ""

NoSlot == [present |-> FALSE, cwd |-> NoCwd, mtime |-> 0]

\* a directory entry: the log it leads to, and whether its name is valid UTF-8
Entry(n, u) == [log |-> n, utf8 |-> u]

\* read_dir yields the entries of a directory in an order of its own
DirOrders ==
    { <<Entry("s1.jsonl", TRUE), Entry("rollout-s2.jsonl", TRUE), Entry("agent-s3.jsonl", TRUE)>>,
      <<Entry("agent-s3.jsonl", TRUE), Entry("rollout-s2.jsonl", TRUE), Entry("s1.jsonl", TRUE)>>,
      <<Entry("s1.jsonl", TRUE), Entry("rollout-s2.jsonl", TRUE), Entry("agent-s3.jsonl", FALSE)>> }

NoProjCall == [op |-> "init", arg |-> NoPath, limit |-> 0, result |-> <<>>]

\* no session log is on disk
ProjInit ==
    /\ store = [n \in LogNames |-> NoSlot]
    /\ dorder = <<Entry("s1.jsonl", TRUE), Entry("rollout-s2.jsonl", TRUE),
                  Entry("agent-s3.jsonl", TRUE)>>
    /\ pcall = NoProjCall

\* the logs the cache-assisted calls work on
HostFiles == {"s1.jsonl", "rollout-s2.jsonl"}

NoHostFile == [present |-> FALSE, mtime |-> 0, count |-> 0]

NoMem == [clock |-> 0, held |-> <<>>]
NoHostCall == [op |-> "init", type |-> "", arg |-> NoPath, ok |-> TRUE, err |-> FALSE,
               result |-> <<>>, count |-> 0, parsed |-> {}, at |-> 0, mem |-> NoMem,
               pre |-> [cache |-> <<>>, conns |-> {}, kv |-> <<>>, lru |-> <<>>,
                        trash |-> <<>>]]

\* the mutex of DB_CONNECTIONS: who holds it (0 is nobody), and how often init_db
\* has opened the connection of a source type
NoLock == [holder |-> 0, opened |-> <<>>]

\* manifest.json as serde_json reads it: a manifest, or bytes that do not parse
Parses == "json"
Garbled == "garbled"

\* no startup time is recorded, the project has no log, the memory cache is empty
HostInit ==
    /\ kv = EmptyFn
    /\ files = [n \in HostFiles |-> NoHostFile]
    /\ rcall = NoHostCall
    /\ lru = <<>>
    /\ dblock = NoLock
    /\ mbytes = Parses

\* the sidecar directories a Claude installation starts with
SidecarChoices == {{}, {HistoryDir("d1/a.jsonl")}, HistoryDirs}

\* every session file exists; a Claude session may have its sidecar directory
TrashInit ==
    /\ cli \in CliTypes
    /\ live = [p \in Paths |-> ContentOf(p)]
    /\ \E hs \in SidecarChoices :
          /\ cli = "codex" => hs = {}
          /\ side = [h \in HistoryDirs |-> IF h \in hs THEN h ELSE NoFile]
    /\ trashDir = FALSE
    /\ dirs = EmptyFn
    /\ manifest = NoManifest
    /\ now = 0
    /\ ticks = 0
    /\ last = [Call("init", NoPath, EmptyName, 0, TRUE, 0) EXCEPT !.pre = InitState]

Init ==
    /\ TrashInit
    /\ RaceInit
    /\ CacheInit
    /\ ParseInit
    /\ PageInit
    /\ ProjInit
    /\ HostInit

Next ==
    \/ \E p \in Paths : Delete(p)
    \/ \E d \in DirInputs : Restore(d)
    \/ \E d \in DirInputs : Purge(d)
    \/ \E n \in RetentionDays : Cleanup(n)
    \/ \E j \in Jumps : Tick(j)

Spec == Init /\ [][Next]_vars

----------------------------------------------------------------------------
(* Claims on the trash lifecycle, calls made one at a time.                *)

ItemsOf(S) == IF S.manifest.exists THEN S.manifest.items ELSE <<>>

DirNamesOf(S) == {S.manifest.items[i].dir_name : i \in 1..Len(S.manifest.items)}

\* C1: a successful delete_session(f) directly followed by a successful
\* restore_from_trash of the directory that delete made leaves f at its original
\* path with its original content, the sidecar back at its original path, no trash
\* subdirectory of that name, and the manifest entries that were there before.
C1_DeleteRestoreIdentity ==
    (last.op = "restore" /\ last.chained) =>
        /\ live[last.path] = last.pre2.live[last.path]
        /\ side[HistoryDir(last.path)] = last.pre2.side[HistoryDir(last.path)]
        /\ last.dir \notin DOMAIN dirs
        /\ ItemsOf(Cur) = ItemsOf(last.pre2)

\* the same round trip when the delete made a directory that did not exist before
C1_FreshDirRoundTrip ==
    (last.op = "restore" /\ last.chained /\ last.dir \notin DOMAIN last.pre2.dirs) =>
        /\ live = last.pre2.live
        /\ side = last.pre2.side
        /\ dirs = last.pre2.dirs
        /\ ItemsOf(Cur) = ItemsOf(last.pre2)

\* the log file of a manifest entry lies in the entry's trash subdirectory
HoldsLogOf(S, item) ==
    /\ item.dir_name \in DOMAIN S.dirs
    /\ FileName(item.original_file) \in DOMAIN S.dirs[item.dir_name].files
    /\ S.dirs[item.dir_name].files[FileName(item.original_file)]
           = ContentOf(item.original_file)

\* C2: between calls the subdirectories of trash/ are exactly the dir_name values
\* of the manifest, and each subdirectory holds the log file of its entry.
C2_TrashAgreesWithManifest ==
    /\ DOMAIN dirs = DirNamesOf(Cur)
    /\ \A i \in 1..Len(manifest.items) : HoldsLogOf(Cur, manifest.items[i])

\* the directory names alone agree
C2_SameNames == DOMAIN dirs = DirNamesOf(Cur)

\* C8: delete_session on a path that does not exist returns an error, creates no
\* trash directory or subdirectory and leaves the manifest as it was.
C8_DeleteMissingNoEffect ==
    (last.op = "delete" /\ last.pre.live[last.path] = NoFile) =>
        /\ ~last.ok
        /\ Cur = last.pre

\* a delete of a path that is gone was refused before any trash directory existed
C8_Witness ==
    /\ last.op = "delete"
    /\ last.pre.live[last.path] = NoFile
    /\ ~last.ok
    /\ ~last.pre.trashDir

\* C9: a successful delete_session(path) moves the log file into a new trash
\* subdirectory named {sessionId}_{timestamp} and appends exactly one TrashItem with
\* that dir_name, original_file = path and deleted_at = the timestamp at the end of
\* the manifest, every earlier item staying in place.
C9_DeleteNewDirAppendsOne ==
    (last.op = "delete" /\ last.ok) =>
        LET name == ItemName(SessionId(cli, last.path), last.at)
            n == Len(ItemsOf(last.pre))
        IN /\ name \notin DOMAIN last.pre.dirs
           /\ name \in DOMAIN dirs
           /\ FileName(last.path) \in DOMAIN dirs[name].files
           /\ dirs[name].files[FileName(last.path)] = last.pre.live[last.path]
           /\ live[last.path] = NoFile
           /\ manifest.exists
           /\ Len(manifest.items) = n + 1
           /\ SubSeq(manifest.items, 1, n) = ItemsOf(last.pre)
           /\ manifest.items[n + 1].dir_name = name
           /\ manifest.items[n + 1].original_file = last.path
           /\ manifest.items[n + 1].deleted_at = last.at

\* the same with the word "new" left out: the subdirectory may have existed
C9_AppendsOne ==
    (last.op = "delete" /\ last.ok) =>
        LET name == ItemName(SessionId(cli, last.path), last.at)
            n == Len(ItemsOf(last.pre))
        IN /\ name \in DOMAIN dirs
           /\ FileName(last.path) \in DOMAIN dirs[name].files
           /\ dirs[name].files[FileName(last.path)] = last.pre.live[last.path]
           /\ live[last.path] = NoFile
           /\ manifest.exists
           /\ Len(manifest.items) = n + 1
           /\ SubSeq(manifest.items, 1, n) = ItemsOf(last.pre)
           /\ manifest.items[n + 1].dir_name = name
           /\ manifest.items[n + 1].original_file = last.path
           /\ manifest.items[n + 1].deleted_at = last.at

\* C10: after permanently_delete(dirName) succeeds there is no subdirectory and no
\* manifest entry of that name; called again, or for a name that was never in the
\* trash, it succeeds and leaves the trash directory and the manifest entries alone.
C10_PurgeIdempotent ==
    (last.op = "purge") =>
        /\ last.ok => (last.dir \notin DOMAIN dirs /\ ~HasEntry(manifest, last.dir))
        /\ (last.dir \notin DOMAIN last.pre.dirs /\ ~HasEntry(last.pre.manifest, last.dir))
              => /\ last.ok
                 /\ dirs = last.pre.dirs
                 /\ trashDir = last.pre.trashDir
                 /\ manifest = last.pre.manifest

\* the same for the names other than the empty string
C10_PurgeIdempotentNamed ==
    (last.op = "purge" /\ last.dir # EmptyName) => C10_PurgeIdempotent

\* C12: the trash-subdirectory name is a primary key: in every state reached by
\* delete_session, restore_from_trash, permanently_delete and cleanup_expired_trash
\* calls no two TrashItems of the manifest have the same dir_name.
C12_DirNameIsKey ==
    \A i, j \in 1..Len(manifest.items) :
        i # j => manifest.items[i].dir_name # manifest.items[j].dir_name

\* two sessions were deleted one after the other and both lie in the trash
C12_Witness ==
    /\ Len(manifest.items) = 2
    /\ manifest.items[1].original_file # manifest.items[2].original_file
    /\ manifest.items[1].session_id = manifest.items[2].session_id
    /\ manifest.items[1].deleted_at # manifest.items[2].deleted_at

----------------------------------------------------------------------------
(* Overlapping trash calls: each handler advances one file-system call at  *)
(* a time, two callers at once.  A write of manifest.json is one step.     *)

fsVars == <<live, side, trashDir, dirs, manifest>>

Others(q) == Procs \ {q}

Begin(q) ==
    /\ pc[q] \in Resting
    /\ calls < MaxCalls
    /\ calls' = calls + 1
    /\ overlap' = (overlap \/ \E r \in Others(q) : pc[r] \notin Resting)

Goto(q, label, l) ==
    /\ pc' = [pc EXCEPT ![q] = label]
    /\ loc' = [loc EXCEPT ![q] = l]

Finish(q, res, l) == Goto(q, "done", [l EXCEPT !.res = res])

RaceIdle ==
    /\ UNCHANGED <<cli, now, ticks, last>>
    /\ UNCHANGED cacheVars
    /\ UNCHANGED parseVars
    /\ UNCHANGED pageVars
    /\ UNCHANGED projVars
    /\ UNCHANGED hostVars

\* path.exists()
DeleteStart(q, p) ==
    LET l == [NoLoc EXCEPT !.op = "delete", !.path = p,
                           !.dir = ItemName(SessionId(cli, p), now)] IN
    /\ Begin(q)
    /\ IF live[p] = NoFile THEN Finish(q, "missing", l) ELSE Goto(q, "d_mkdir", l)
    /\ UNCHANGED fsVars
    /\ RaceIdle

\* create_dir_all(trash_dir); create_dir_all(item_dir)
DeleteMkdir(q) ==
    /\ pc[q] = "d_mkdir"
    /\ trashDir' = TRUE
    /\ dirs' = IF loc[q].dir \in DOMAIN dirs THEN dirs ELSE Put(dirs, loc[q].dir, EmptyDir)
    /\ Goto(q, "d_rename", [loc[q] EXCEPT !.wrote = TRUE])
    /\ UNCHANGED <<live, side, manifest, calls, overlap>>
    /\ RaceIdle

\* fs::rename(path, dest_file)
DeleteRename(q) ==
    LET p == loc[q].path
        d == loc[q].dir IN
    /\ pc[q] = "d_rename"
    /\ IF live[p] = NoFile \/ d \notin DOMAIN dirs
       THEN /\ Finish(q, "io", loc[q])
            /\ UNCHANGED <<live, dirs>>
       ELSE /\ live' = [live EXCEPT ![p] = NoFile]
            /\ dirs' = [dirs EXCEPT ![d].files = Put(dirs[d].files, FileName(p), live[p])]
            /\ Goto(q, IF cli = "claude" THEN "d_side" ELSE "d_read", loc[q])
    /\ UNCHANGED <<side, trashDir, manifest, calls, overlap>>
    /\ RaceIdle

\* the file-history step of the Claude handler
DeleteSide(q) ==
    LET p == loc[q].path
        d == loc[q].dir
        h == HistoryDir(p)
        mv == IF d \in DOMAIN dirs
              THEN MoveSidecarIn(Cur, p, dirs[d])
              ELSE [side |-> side, dir |-> EmptyDir,
                    ofh |-> IF side[h] = NoFile THEN NoPath ELSE h] IN
    /\ pc[q] = "d_side"
    /\ side' = mv.side
    /\ dirs' = IF d \in DOMAIN dirs THEN [dirs EXCEPT ![d] = mv.dir] ELSE dirs
    /\ Goto(q, "d_read", [loc[q] EXCEPT !.item = <<mv.ofh>>])
    /\ UNCHANGED <<live, trashDir, manifest, calls, overlap>>
    /\ RaceIdle

\* fs::read_to_string(manifest_path) and serde_json::from_str
DeleteRead(q) ==
    /\ pc[q] = "d_read"
    /\ Goto(q, "d_write", [loc[q] EXCEPT !.items = ItemsForDelete(Cur)])
    /\ UNCHANGED <<fsVars, calls, overlap>>
    /\ RaceIdle

\* manifest.items.push(item); fs::write(manifest_path, ...)
DeleteWrite(q) ==
    LET p == loc[q].path
        item == [session_id |-> SessionId(cli, p),
                 project_name |-> ProjectName(cli, p),
                 deleted_at |-> now,
                 dir_name |-> loc[q].dir,
                 original_file |-> p,
                 original_file_history |->
                     IF loc[q].item = <<>> THEN NoPath ELSE loc[q].item[1]] IN
    /\ pc[q] = "d_write"
    /\ manifest' = [exists |-> TRUE, items |-> Append(loc[q].items, item)]
    /\ Finish(q, "ok", loc[q])
    /\ UNCHANGED <<live, side, trashDir, dirs, calls, overlap>>
    /\ RaceIdle

\* manifest_path.exists(), the read, and the search for the entry
RestoreStart(q, d) ==
    LET l == [NoLoc EXCEPT !.op = "restore", !.dir = d]
        found == RestoreLookup(manifest, d) IN
    /\ Begin(q)
    /\ IF found # "found"
       THEN Finish(q, found, l)
       ELSE Goto(q, "r_dir", [l EXCEPT !.items = manifest.items,
                                       !.item = <<FirstEntry(manifest, d)>>])
    /\ UNCHANGED fsVars
    /\ RaceIdle

\* item_dir.exists()
RestoreDir(q) ==
    /\ pc[q] = "r_dir"
    /\ IF ItemDirExists(dirs, loc[q].dir)
       THEN Goto(q, "r_move", loc[q])
       ELSE Finish(q, "no_dir", loc[q])
    /\ UNCHANGED <<fsVars, calls, overlap>>
    /\ RaceIdle

\* fs::read_dir(item_dir) and the rename of the first .jsonl entry
RestoreMove(q) ==
    LET d == loc[q].dir
        item == loc[q].item[1] IN
    /\ pc[q] = "r_move"
    /\ IF d \notin DOMAIN dirs
       THEN /\ Finish(q, "io", loc[q])
            /\ UNCHANGED <<live, dirs>>
       ELSE \E fn \in FirstLogChoices(dirs[d]) :
              /\ live' = IF fn = NoFile THEN live
                         ELSE [live EXCEPT ![item.original_file] = dirs[d].files[fn]]
              /\ dirs' = IF fn = NoFile THEN dirs
                         ELSE [dirs EXCEPT ![d].files = Drop(dirs[d].files, {fn})]
              /\ Goto(q, "r_side", [loc[q] EXCEPT !.wrote = (fn # NoFile) \/ @])
    /\ UNCHANGED <<side, trashDir, manifest, calls, overlap>>
    /\ RaceIdle

\* the file-history step of restore_from_trash
RestoreSide(q) ==
    LET d == loc[q].dir
        item == loc[q].item[1]
        moved == d \in DOMAIN dirs /\ MoveSidecarOut(side, item, dirs[d]) # side IN
    /\ pc[q] = "r_side"
    /\ side' = IF moved THEN MoveSidecarOut(side, item, dirs[d]) ELSE side
    /\ dirs' = IF moved THEN [dirs EXCEPT ![d].fh = NoFile] ELSE dirs
    /\ Goto(q, "r_rmdir", [loc[q] EXCEPT !.wrote = moved \/ @])
    /\ UNCHANGED <<live, trashDir, manifest, calls, overlap>>
    /\ RaceIdle

\* fs::remove_dir_all(item_dir).ok()
RestoreRmdir(q) ==
    /\ pc[q] = "r_rmdir"
    /\ dirs' = Drop(dirs, {loc[q].dir})
    /\ Goto(q, "r_write", [loc[q] EXCEPT !.wrote = TRUE])
    /\ UNCHANGED <<live, side, trashDir, manifest, calls, overlap>>
    /\ RaceIdle

\* manifest.items.retain(...); fs::write(manifest_path, ...)
RestoreWrite(q) ==
    /\ pc[q] = "r_write"
    /\ manifest' = [exists |-> TRUE, items |-> RetainOthers(loc[q].items, loc[q].dir)]
    /\ Finish(q, "ok", loc[q])
    /\ UNCHANGED <<live, side, trashDir, dirs, calls, overlap>>
    /\ RaceIdle

\* item_dir.exists() and fs::remove_dir_all(item_dir)
PurgeStart(q, d) ==
    LET l == [NoLoc EXCEPT !.op = "purge", !.dir = d, !.wrote = d \in DOMAIN dirs] IN
    /\ Begin(q)
    /\ dirs' = Drop(dirs, {d})
    /\ Goto(q, "p_read", l)
    /\ UNCHANGED <<live, side, trashDir, manifest>>
    /\ RaceIdle

\* manifest_path.exists() and the read
PurgeRead(q) ==
    /\ pc[q] = "p_read"
    /\ IF manifest.exists
       THEN Goto(q, "p_write", [loc[q] EXCEPT !.items = manifest.items])
       ELSE Finish(q, "ok", loc[q])
    /\ UNCHANGED <<fsVars, calls, overlap>>
    /\ RaceIdle

\* manifest.items.retain(...); fs::write(manifest_path, ...)
PurgeWrite(q) ==
    /\ pc[q] = "p_write"
    /\ manifest' = [exists |-> TRUE, items |-> RetainOthers(loc[q].items, loc[q].dir)]
    /\ Finish(q, "ok", [loc[q] EXCEPT !.wrote = TRUE])
    /\ UNCHANGED <<live, side, trashDir, dirs, calls, overlap>>
    /\ RaceIdle

\* the dir_name arguments of overlapping calls
RaceDirInputs ==
    DOMAIN dirs \cup {manifest.items[i].dir_name : i \in 1..Len(manifest.items)}
                \cup {StrangerName}

RaceTrashInit ==
    /\ cli \in CliTypes
    /\ live = [p \in Paths |-> ContentOf(p)]
    /\ side = [h \in HistoryDirs |-> NoFile]
    /\ trashDir = FALSE
    /\ dirs = EmptyFn
    /\ manifest = NoManifest
    /\ now = 0
    /\ ticks = 0
    /\ last = [Call("init", NoPath, EmptyName, 0, TRUE, 0) EXCEPT !.pre = InitState]

InitRace ==
    /\ RaceTrashInit
    /\ RaceInit
    /\ CacheInit
    /\ ParseInit
    /\ PageInit
    /\ ProjInit
    /\ HostInit

NextRace ==
    \/ \E q \in Procs, p \in Paths : DeleteStart(q, p)
    \/ \E q \in Procs : DeleteMkdir(q)
    \/ \E q \in Procs : DeleteRename(q)
    \/ \E q \in Procs : DeleteSide(q)
    \/ \E q \in Procs : DeleteRead(q)
    \/ \E q \in Procs : DeleteWrite(q)
    \/ \E q \in Procs, d \in RaceDirInputs : RestoreStart(q, d)
    \/ \E q \in Procs : RestoreDir(q)
    \/ \E q \in Procs : RestoreMove(q)
    \/ \E q \in Procs : RestoreSide(q)
    \/ \E q \in Procs : RestoreRmdir(q)
    \/ \E q \in Procs : RestoreWrite(q)
    \/ \E q \in Procs, d \in RaceDirInputs : PurgeStart(q, d)
    \/ \E q \in Procs : PurgeRead(q)
    \/ \E q \in Procs : PurgeWrite(q)

SpecRace == InitRace /\ [][NextRace]_vars

----------------------------------------------------------------------------
(* Claims on overlapping trash calls.                                      *)

AllResting == \A q \in Procs : pc[q] \in Resting

\* C5: manifest mutations are not serialized: two overlapping calls can each read
\* manifest.json before the other writes it and one update is lost.  The lost update
\* is the witness; what holds in every behaviour is that the directory names and the
\* manifest disagree at rest only after calls have overlapped.
C5_LostOnlyByOverlap ==
    (AllResting /\ ~overlap) => DOMAIN dirs = DirNamesOf(Cur)

\* two deletes of different sessions have both succeeded, both log files lie in
\* their trash subdirectories, and the manifest lists only one of them
C5_LostUpdate ==
    /\ \A q \in Procs : pc[q] = "done" /\ loc[q].op = "delete" /\ loc[q].res = "ok"
    /\ loc[1].dir # loc[2].dir
    /\ \A q \in Procs :
          /\ loc[q].dir \in DOMAIN dirs
          /\ FileName(loc[q].path) \in DOMAIN dirs[loc[q].dir].files
    /\ \E q \in Procs : ~HasEntry(manifest, loc[q].dir)
    /\ Len(manifest.items) = 1

Refusals == {"no_manifest", "no_entry", "no_dir"}

\* C7: restore_from_trash(dirName) fails, having changed neither the manifest nor
\* any file or directory, whenever the manifest is missing or has no entry of that
\* name, or the trash subdirectory of the entry is missing.
C7_RestoreRefusesCleanly ==
    [][\A q \in Procs :
          /\ \A d \in RaceDirInputs :
                (RestoreStart(q, d) /\ (~manifest.exists \/ ~HasEntry(manifest, d)))
                    => /\ pc'[q] = "done"
                       /\ loc'[q].res \in Refusals
                       /\ ~loc'[q].wrote
                       /\ UNCHANGED fsVars
          /\ (RestoreDir(q) /\ loc[q].dir \notin DOMAIN dirs)
                    => /\ pc'[q] = "done"
                       /\ loc'[q].res \in Refusals
                       /\ ~loc'[q].wrote
                       /\ UNCHANGED fsVars
          /\ (pc'[q] = "done" /\ loc'[q].op = "restore" /\ loc'[q].res = "ok")
                    => loc'[q].item # <<>>
      ]_vars

\* a restore was refused because the subdirectory of its manifest entry was gone
C7_Witness ==
    \E q \in Procs :
        /\ pc[q] = "done"
        /\ loc[q].op = "restore"
        /\ loc[q].res = "no_dir"
        /\ loc[q].item # <<>>
        /\ ~loc[q].wrote

----------------------------------------------------------------------------
(* The metadata cache: one SQLite table history_cache per source type,     *)
(* a set of rows with file_path as primary key.                            *)

\* get_db: opens the connection of the type on first use
GetDb(cs, c) == cs \cup {c}

\* WHERE file_path = ?
RowsFor(tbl, p) == {r \in tbl : r.file_path = p}


\* INSERT OR REPLACE INTO history_cache: file_path is the primary key
InsertOrReplace(tbl, row) == (tbl \ RowsFor(tbl, row.file_path)) \cup {row}

\* DELETE FROM history_cache WHERE file_path = ?
DeleteWhere(tbl, p) == tbl \ RowsFor(tbl, p)

\* a variant that accepts only an unchanged mtime
MtimeCoversExact(m, o) == m = o

\* cached_mtime.map_or(false, |m| m >= file_mtime), the Some case
MtimeCovers(m, o) == m >= o

\* is_cache_valid: the answers query_row can give; no row is None and so false
IsCacheValid(tbl, p, o) ==
    IF RowsFor(tbl, p) = {} THEN {FALSE}
    ELSE {MtimeCovers(r.file_mtime, o) : r \in RowsFor(tbl, p)}

CacheIdle == UNCHANGED <<trashVars, raceVars, parseVars, pageVars, projVars, hostVars>>

UpdateCacheEntry(c, p, m) ==
    /\ conns' = GetDb(conns, c)
    /\ cache' = [cache EXCEPT ![c] = InsertOrReplace(@, [file_path |-> p, file_mtime |-> m])]
    /\ shadow' = Put(shadow, <<c, p>>, m)
    /\ cres' = [NoCall EXCEPT !.op = "update_cache_entry", !.cli = c, !.path = p,
                              !.mtime = m, !.result = TRUE]
    /\ CacheIdle

DeleteCacheEntry(c, p) ==
    /\ conns' = GetDb(conns, c)
    /\ cache' = [cache EXCEPT ![c] = DeleteWhere(@, p)]
    /\ shadow' = Drop(shadow, {<<c, p>>})
    /\ cres' = [NoCall EXCEPT !.op = "delete_cache_entry", !.cli = c, !.path = p,
                              !.result = TRUE]
    /\ CacheIdle

\* DELETE FROM history_cache
ClearCache(c) ==
    /\ conns' = GetDb(conns, c)
    /\ cache' = [cache EXCEPT ![c] = {}]
    /\ shadow' = Drop(shadow, {<<c, p>> : p \in CachePaths})
    /\ cres' = [NoCall EXCEPT !.op = "clear_cache", !.cli = c, !.result = TRUE]
    /\ CacheIdle

IsCacheValidCall(c, p, o) ==
    /\ conns' = GetDb(conns, c)
    /\ \E b \in IsCacheValid(cache[c], p, o) :
          cres' = [NoCall EXCEPT !.op = "is_cache_valid", !.cli = c, !.path = p,
                                 !.observed = o, !.result = b]
    /\ UNCHANGED <<cache, shadow>>
    /\ CacheIdle

InitCache ==
    /\ RaceTrashInit
    /\ RaceInit
    /\ CacheInit
    /\ ParseInit
    /\ PageInit
    /\ ProjInit
    /\ HostInit

NextCache ==
    \/ \E c \in CacheClis, p \in CachePaths, m \in Mtimes : UpdateCacheEntry(c, p, m)
    \/ \E c \in CacheClis, p \in CachePaths : DeleteCacheEntry(c, p)
    \/ \E c \in CacheClis : ClearCache(c)
    \/ \E c \in CacheClis, p \in CachePaths, o \in Observed : IsCacheValidCall(c, p, o)

SpecCache == InitCache /\ [][NextCache]_vars

\* what the update_cache_entry still in force for a path promises
InForce(c, p, o) == <<c, p>> \in DOMAIN shadow /\ shadow[<<c, p>>] >= o

\* C4: is_cache_valid(type, path, observed) is true iff the cache of that type holds
\* an entry for path whose stored file_mtime is >= observed: after an
\* update_cache_entry with mtime m it is true for every observed <= m and false for
\* every observed > m until a later update_cache_entry, delete_cache_entry or
\* clear_cache touches the path, and false for a path with no entry.
C4_ValidIffStoredAtLeast ==
    /\ \A c \in CacheClis, p \in CachePaths, o \in Observed :
          IsCacheValid(cache[c], p, o) = {InForce(c, p, o)}
    /\ cres.op = "is_cache_valid" => cres.result = InForce(cres.cli, cres.path, cres.observed)

\* a query answered true for a file whose mtime went back below the stored one,
\* while the other source type has no entry for that path
C4_Witness ==
    /\ cres.op = "is_cache_valid"
    /\ cres.result
    /\ <<cres.cli, cres.path>> \in DOMAIN shadow
    /\ cres.observed < shadow[<<cres.cli, cres.path>>]
    /\ \E c \in CacheClis \ {cres.cli} : <<c, cres.path>> \notin DOMAIN shadow

----------------------------------------------------------------------------
(* Session logs and the listing of a project.  A log is a sequence of      *)
(* lines; a line is what the parsers can tell about it.                     *)

\* an absent Option<String> timestamp; present ones are 1, 2 in string order
NoTs == 0

\* kind "bad" is a blank or unreadable line or one that is not JSON;
\* type: "user" is a Claude line of type user or a Codex event_msg/user_message,
\* "assistant" a Claude assistant line or a Codex event_msg/agent_message,
\* "item" a Codex response_item of payload type message (a type Claude ignores)
BadLine == [kind |-> "bad", marker |-> FALSE, type |-> "none", ts |-> NoTs,
            tool |-> FALSE, cwd |-> NoCwd]
\* a line that is not JSON and has "cwd" in its text, as a line cut short is
BadCwdLine == [kind |-> "bad", marker |-> FALSE, type |-> "none", ts |-> NoTs,
               tool |-> FALSE, cwd |-> "C:/proj"]
JsonLine(type, ts, tool, marker, cwd) ==
    [kind |-> "json", marker |-> marker, type |-> type, ts |-> ts, tool |-> tool, cwd |-> cwd]

Lines ==
    { BadLine,
      JsonLine("user", 1, FALSE, FALSE, "C:/proj"),
      JsonLine("user", NoTs, FALSE, FALSE, NoCwd),
      JsonLine("user", 1, TRUE, FALSE, NoCwd),
      JsonLine("user", 2, FALSE, TRUE, NoCwd),
      JsonLine("assistant", 2, FALSE, FALSE, NoCwd),
      JsonLine("item", 1, FALSE, FALSE, "c:\\proj") }

LogStem(n) ==
    CASE n = "s1.jsonl" -> "s1"
      [] n = "rollout-s2.jsonl" -> "rollout-s2"
      [] OTHER -> "agent-s3"

\* .replace("rollout-", "")
LogStripRollout(st) == IF st = "rollout-s2" THEN "s2" ELSE st

\* file_name().starts_with("agent-")
IsAgentFile(n) == n = "agent-s3.jsonl"

\* normalize_path: separators to backslash, drive letter to upper case
NormalizePath(w) ==
    CASE w = "C:/proj" -> "C:\\proj"
      [] w = "c:\\proj" -> "C:\\proj"
      [] w = "C:/Proj" -> "C:\\Proj"
      [] OTHER -> w

NoInfo == [msg_count |-> 0, user_turn_count |-> 0, first_ts |-> NoTs,
           last_ts |-> NoTs, cwd |-> NoCwd]

\* the lines the loop skips before it counts: blank, unreadable or not JSON (kind
\* "bad") and, for Claude, a line containing the interruption marker
Skipped(c, ln) ==
    \/ ln.kind = "bad"
    \/ c = "claude" /\ ln.marker

\* a variant that takes every user line for a user turn
CountLineAnyUser(c, acc, ln) ==
    IF ln.type \in {"user", "assistant", "item"}
    THEN [acc EXCEPT !.msg_count = @ + 1,
                     !.user_turn_count = IF ln.type \in {"user", "item"} THEN @ + 1 ELSE @]
    ELSE acc

\* the message and user-turn counters after one decoded line
CountLine(c, acc, ln) ==
    IF c = "claude"
    THEN IF ln.type \in {"user", "assistant"}
         THEN [acc EXCEPT !.msg_count = @ + 1,
                          !.user_turn_count =
                              IF ln.type = "user" /\ ~ln.tool THEN @ + 1 ELSE @]
         ELSE acc
    ELSE CASE ln.type = "item" -> [acc EXCEPT !.msg_count = @ + 1]
           [] ln.type = "user" -> [acc EXCEPT !.msg_count = @ + 1,
                                              !.user_turn_count = @ + 1]
           [] ln.type = "assistant" -> [acc EXCEPT !.msg_count = @ + 1]
           [] OTHER -> acc

\* one pass of the loop body of parse_session_info
InfoStep(c, acc, ln) ==
    IF Skipped(c, ln) THEN acc
    ELSE CountLine(c,
            [acc EXCEPT !.cwd = IF @ = NoCwd THEN ln.cwd ELSE @,
                        !.first_ts = IF ln.ts # NoTs /\ @ = NoTs THEN ln.ts ELSE @,
                        !.last_ts = IF ln.ts # NoTs THEN ln.ts ELSE @],
            ln)

RECURSIVE InfoFold(_, _, _)
InfoFold(c, lines, acc) ==
    IF lines = <<>> THEN acc
    ELSE InfoFold(c, Tail(lines), InfoStep(c, acc, Head(lines)))

\* parse_session_info: <<>> is None
ParseSessionInfo(c, n, lines) ==
    LET info == InfoFold(c, lines, NoInfo) IN
    IF Len(lines) = 0 THEN <<>>
    ELSE IF info.msg_count = 0 THEN <<>>
    ELSE IF info.first_ts = NoTs /\ info.last_ts = NoTs THEN <<>>
    ELSE IF info.user_turn_count = 0 THEN <<>>
    ELSE << [id |-> IF c = "codex" THEN LogStripRollout(LogStem(n)) ELSE LogStem(n),
             file_path |-> n,
             cwd |-> info.cwd,
             first_timestamp |-> info.first_ts,
             last_timestamp |-> info.last_ts,
             message_count |-> info.msg_count,
             user_turn_count |-> info.user_turn_count,
             file_size |-> Len(lines)] >>

\* get_cwd_fast: the first line with "cwd" in it decides, and when it is not
\* JSON the answer is None (serde_json::from_str(&line).ok()?); NoCwd is None
RECURSIVE GetCwdFast(_)
GetCwdFast(lines) ==
    IF lines = <<>> THEN NoCwd
    ELSE IF Head(lines).cwd # NoCwd
         THEN IF Head(lines).kind = "bad" THEN NoCwd ELSE Head(lines).cwd
    ELSE GetCwdFast(Tail(lines))

\* the orders in which read_dir or WalkDir can yield a set of files
RECURSIVE Orders(_)
Orders(ns) ==
    IF ns = {} THEN {<<>>}
    ELSE UNION {{<<n>> \o o : o \in Orders(ns \ {n})} : n \in ns}

\* sort_by(|a, b| b.last_timestamp.cmp(&a.last_timestamp)): stable, descending
RECURSIVE InsertDesc(_, _)
InsertDesc(sorted, r) ==
    IF sorted = <<>> THEN <<r>>
    ELSE IF Head(sorted).last_timestamp >= r.last_timestamp
         THEN <<Head(sorted)>> \o InsertDesc(Tail(sorted), r)
         ELSE <<r>> \o sorted

\* a variant that leaves the records in the order the parses delivered them
SortDescNot(rs, sorted) == rs \o sorted

RECURSIVE SortDesc(_, _)
SortDesc(rs, sorted) ==
    IF rs = <<>> THEN sorted
    ELSE SortDesc(Tail(rs), InsertDesc(sorted, Head(rs)))

\* the per-file parses of a listing, in the order of the files
RECURSIVE ParseAll(_, _, _)
ParseAll(c, dir, order) ==
    IF order = <<>> THEN <<>>
    ELSE ParseSessionInfo(c, Head(order), dir[Head(order)]) \o ParseAll(c, dir, Tail(order))

\* the one Claude project directory that exists
ClaudeProject == "d1"

\* the files a listing parses
Listed(c, dir, id) ==
    IF c = "claude"
    THEN IF id # ClaudeProject THEN {}
         ELSE {n \in DOMAIN dir : ~IsAgentFile(n)}
    ELSE {n \in DOMAIN dir :
             /\ GetCwdFast(dir[n]) # NoCwd
             /\ NormalizePath(GetCwdFast(dir[n])) = NormalizePath(id)}

\* a variant with the Codex threshold for both
EnoughOne(c, r) == r.user_turn_count >= 1

\* the threshold on user turns: > 1 for Claude, >= 1 for Codex
Enough(c, r) == IF c = "claude" THEN r.user_turn_count > 1 ELSE r.user_turn_count >= 1

\* load_project: the lists it can return, one for each order of the directory
LoadProject(c, dir, id) ==
    {SortDesc(SelectSeq(ParseAll(c, dir, o), LAMBDA r : Enough(c, r)), <<>>) :
        o \in Orders(Listed(c, dir, id))}

ProjectIds == {ClaudeProject, "d9", "C:/proj", "c:\\proj"}

TotalLines(dir) ==
    Len(dir["s1.jsonl"]) + Len(dir["rollout-s2.jsonl"]) + Len(dir["agent-s3.jsonl"])

ParseIdle == UNCHANGED <<trashVars, raceVars, cacheVars, pageVars, projVars, hostVars>>

\* the CLI writes one more line to a log
AppendLine(n, ln) ==
    /\ TotalLines(logdir) < MaxLines
    /\ logdir' = [logdir EXCEPT ![n] = Append(@, ln)]
    /\ pres' = NoListing
    /\ ParseIdle

LoadProjectCall(id) ==
    /\ \E r \in LoadProject(cli, logdir, id) :
          pres' = [op |-> "load_project", id |-> id, limit |-> 0, result |-> r]
    /\ UNCHANGED logdir
    /\ ParseIdle

InitParse ==
    /\ RaceTrashInit
    /\ RaceInit
    /\ CacheInit
    /\ ParseInit
    /\ PageInit
    /\ ProjInit
    /\ HostInit

NextParse ==
    \/ \E n \in LogNames, ln \in Lines : AppendLine(n, ln)
    \/ \E id \in ProjectIds : LoadProjectCall(id)

SpecParse == InitParse /\ [][NextParse]_vars

\* a real user turn, told from the line alone: a Claude user line without a
\* tool_result block, a Codex user_message event
RealUserLine(c, ln) ==
    ln.kind = "json" /\ ln.type = "user" /\ (c = "claude" => ~ln.tool)

\* a user line that only echoes a tool: a Claude user line with a tool_result block,
\* a Codex response_item message
ToolEcho(c, ln) ==
    /\ ln.kind = "json"
    /\ IF c = "claude" THEN ln.type = "user" /\ ln.tool ELSE ln.type = "item"

Returned == {pres.result[i] : i \in 1..Len(pres.result)}

\* C3: every SessionRecord returned by load_project has message_count >= 1,
\* user_turn_count >= 1 and a first or last timestamp; a zero-byte log file, and a
\* log file with no real user turn (its user lines all carry a tool_result block),
\* is never among the records.
C3_ListedRecordsNonTrivial ==
    pres.op = "load_project" =>
        \A r \in Returned :
            /\ r.message_count >= 1
            /\ r.user_turn_count >= 1
            /\ r.first_timestamp # NoTs \/ r.last_timestamp # NoTs
            /\ Len(logdir[r.file_path]) > 0
            /\ \E i \in 1..Len(logdir[r.file_path]) :
                    RealUserLine(cli, logdir[r.file_path][i])

\* a listing returned a record while the directory also held a zero-byte log and a
\* log of tool echoes only
C3_Witness ==
    /\ pres.op = "load_project"
    /\ Returned # {}
    /\ \E n \in LogNames : Len(logdir[n]) = 0
    /\ \E n \in LogNames :
          /\ Len(logdir[n]) > 0
          /\ \A i \in 1..Len(logdir[n]) : ToolEcho(cli, logdir[n][i])
          /\ \A r \in Returned : r.file_path # n

----------------------------------------------------------------------------
(* Pagination of a loaded session by turns.  msgs is the message list of    *)
(* the session file as load_session returns it: [id, real], real being     *)
(* is_real_user.                                                            *)

\* the loop over the messages: a real user message closes the current round
RECURSIVE GroupRounds(_, _, _)
GroupRounds(ms, rounds, current) ==
    IF ms = <<>>
    THEN IF current # <<>> THEN Append(rounds, current) ELSE rounds
    ELSE IF Head(ms).real
         THEN GroupRounds(Tail(ms),
                          IF current # <<>> THEN Append(rounds, current) ELSE rounds,
                          <<Head(ms)>>)
         ELSE GroupRounds(Tail(ms), rounds, Append(current, Head(ms)))

\* iter().flatten()
RECURSIVE Flatten(_)
Flatten(rounds) ==
    IF rounds = <<>> THEN <<>> ELSE Head(rounds) \o Flatten(Tail(rounds))

\* rounds.iter().map(|r| r.len()).sum()
RECURSIVE SumLen(_)
SumLen(rounds) ==
    IF rounds = <<>> THEN 0 ELSE Len(Head(rounds)) + SumLen(Tail(rounds))

Panic == [NoPage EXCEPT !.kind = "panic"]

\* usize arithmetic of a build without overflow checks
Wrap(n) == (n + UsizeMax + 1) % (UsizeMax + 1)

\* load_session_paginated of a build: checks tells whether overflow checks are on
LoadSessionPaginated(ms, first_turns, last_turns, checks) ==
    LET rounds == GroupRounds(ms, <<>>, <<>>)
        total_turns == Len(rounds)
        total_messages == SumLen(rounds)
        sum == first_turns + last_turns
        from == total_turns - last_turns IN
    IF ms = <<>> THEN NoPage
    ELSE IF sum > UsizeMax /\ checks THEN Panic
    ELSE IF Wrap(sum) >= total_turns
         THEN [kind |-> "some", first |-> Flatten(rounds), last |-> <<>>,
               has_middle |-> FALSE, total_turns |-> total_turns,
               total_messages |-> total_messages]
    ELSE IF first_turns > total_turns THEN Panic
    ELSE IF from < 0 /\ checks THEN Panic
    ELSE IF Wrap(from) > total_turns THEN Panic
    ELSE [kind |-> "some",
          first |-> Flatten(SubSeq(rounds, 1, first_turns)),
          last |-> Flatten(SubSeq(rounds, Wrap(from) + 1, total_turns)),
          has_middle |-> TRUE, total_turns |-> total_turns,
          total_messages |-> total_messages]

Usizes == 0..UsizeMax

PageIdle == UNCHANGED <<trashVars, raceVars, cacheVars, parseVars, projVars, hostVars>>

\* the session file gains a message
AppendMsg(real) ==
    /\ Len(msgs) < MaxMsgs
    /\ msgs' = Append(msgs, [id |-> Len(msgs) + 1, real |-> real])
    /\ page' = NoPageCall
    /\ PageIdle

LoadSessionPaginatedCall(f, l) ==
    /\ \E checks \in BOOLEAN :
          page' = [op |-> "load_session_paginated", first_turns |-> f, last_turns |-> l,
                   out |-> LoadSessionPaginated(msgs, f, l, checks)]
    /\ UNCHANGED msgs
    /\ PageIdle

InitPage ==
    /\ RaceTrashInit
    /\ RaceInit
    /\ CacheInit
    /\ ParseInit
    /\ PageInit
    /\ ProjInit
    /\ HostInit

NextPage ==
    \/ \E real \in BOOLEAN : AppendMsg(real)
    \/ \E f \in Usizes, l \in Usizes : LoadSessionPaginatedCall(f, l)

SpecPage == InitPage /\ [][NextPage]_vars

\* the positions where a turn starts: the first message and every real user message
TurnStarts == {i \in 1..Len(msgs) : i = 1 \/ msgs[i].real}
T == Cardinality(TurnStarts)
StartOf(k) == CHOOSE i \in TurnStarts : Cardinality({j \in TurnStarts : j <= i}) = k
\* the messages of turns a..b
TurnsFromTo(a, b) ==
    IF a > b THEN <<>>
    ELSE SubSeq(msgs, StartOf(a), IF b = T THEN Len(msgs) ELSE StartOf(b + 1) - 1)

PageAsSpecified(f, l, out) ==
    /\ out.kind = "some"
    /\ out.total_turns = T
    /\ out.total_messages = Len(msgs)
    /\ IF f + l >= T
       THEN out.first = msgs /\ out.last = <<>> /\ ~out.has_middle
       ELSE /\ out.first = TurnsFromTo(1, f)
            /\ out.last = TurnsFromTo(T - l + 1, T)
            /\ out.has_middle

Paged == page.op = "load_session_paginated" /\ msgs # <<>>

\* C6: load_session_paginated(path, firstTurns, lastTurns) on a session with T
\* turns returns every message as head, no tail and has_middle = false when
\* firstTurns + lastTurns >= T, and otherwise turns 1..firstTurns as head, turns
\* T-lastTurns+1..T as tail and has_middle = true; total_turns = T and
\* total_messages = the number of messages, in both cases.
C6_Pagination ==
    Paged => PageAsSpecified(page.first_turns, page.last_turns, page.out)

\* the same for turn counts whose sum is a usize
C6_PaginationInRange ==
    (Paged /\ page.first_turns + page.last_turns <= UsizeMax)
        => PageAsSpecified(page.first_turns, page.last_turns, page.out)

\* a page with a head, an elided middle and a tail
C6_Witness ==
    /\ Paged
    /\ page.out.kind = "some"
    /\ page.out.has_middle
    /\ page.out.first # <<>>
    /\ page.out.last # <<>>
    /\ T = MaxMsgs

\* the real user messages of the session
RealUsers == {i \in 1..Len(msgs) : msgs[i].real}

TurnsAsSpecified ==
    /\ page.out.total_turns = Cardinality(RealUsers)
    /\ page.out.first # <<>> => page.out.first[1].real
    /\ page.out.last # <<>> => page.out.last[1].real

\* C29: every turn produced by pagination starts with a real user message and
\* holds exactly one, so total_turns is the number of real user messages of
\* the session, for every message sequence, one that starts with non-real
\* messages included
C29_TurnsAreRealUserTurns ==
    Paged /\ page.out.kind = "some" => TurnsAsSpecified

\* C29, as far as the code goes: the same for a session whose first message is
\* a real user message
C29_TurnsOfRealStart ==
    Paged /\ page.out.kind = "some" /\ msgs[1].real => TurnsAsSpecified

\* a page of a session that starts with a non-real message and goes on with a
\* real user message
C29_Witness ==
    /\ Paged
    /\ page.out.kind = "some"
    /\ ~msgs[1].real
    /\ RealUsers # {}

\* a page with an elided middle of a session of MaxMsgs real user messages
C29_WitnessRealStart ==
    /\ Paged
    /\ page.out.kind = "some"
    /\ page.out.has_middle
    /\ Cardinality(RealUsers) = MaxMsgs

----------------------------------------------------------------------------
(* The sweep of expired trash, with time on the scale of days.             *)

DaySeconds == 24 * 3600

\* the retention_days arguments: today, the default, and the largest i64
SweepDays == {0, 30, I64Max}

\* the clock moves a second, five days or twenty-six days
SweepJumps == {1, 5 * DaySeconds, 26 * DaySeconds}

InitSweep ==
    /\ RaceTrashInit
    /\ RaceInit
    /\ CacheInit
    /\ ParseInit
    /\ PageInit
    /\ ProjInit
    /\ HostInit

NextSweep ==
    \/ \E p \in Paths : Delete(p)
    \/ \E n \in SweepDays : Cleanup(n)
    \/ \E j \in SweepJumps : Tick(j)

SpecSweep == InitSweep /\ [][NextSweep]_vars

\* deleted_at < at - days * 86400 for days >= 0, in whole numbers, put as a
\* division so that no product of a large day count is needed
Aged(item, at, days) ==
    /\ at - item.deleted_at > 0
    /\ days <= (at - item.deleted_at - 1) \div DaySeconds

\* the items of a manifest older than the retention period, and the others
OlderThan(items, at, days) == SelectSeq(items, LAMBDA i : Aged(i, at, days))
NotOlderThan(items, at, days) == SelectSeq(items, LAMBDA i : ~Aged(i, at, days))

SweptAsSpecified ==
    LET before == last.pre.manifest.items
        gone == OlderThan(before, last.at, last.days) IN
    IF ~last.pre.manifest.exists
    THEN last.ok /\ last.removed = 0 /\ Cur = last.pre
    ELSE /\ last.ok
         /\ manifest.exists
         /\ manifest.items = NotOlderThan(before, last.at, last.days)
         /\ dirs = Drop(last.pre.dirs, {gone[i].dir_name : i \in 1..Len(gone)})
         /\ last.removed = Len(before) - Len(manifest.items)
         /\ live = last.pre.live /\ side = last.pre.side /\ trashDir = last.pre.trashDir

\* C11: cleanup_expired_trash(retentionDays), with cutoff = now - retentionDays*86400,
\* removes from the manifest exactly the items with deleted_at < cutoff, deletes the
\* subdirectories of exactly those, keeps the other items unchanged and in order and
\* returns the number removed; with no manifest it returns 0 and changes nothing.
C11_SweepExact ==
    last.op = "cleanup" => SweptAsSpecified

\* the same for retention periods whose seconds fit an i64
C11_SweepExactInRange ==
    (last.op = "cleanup" /\ ~CutoffOverflows(last.at, last.days)) => SweptAsSpecified

\* retention of 30 days removed an item deleted 31 days before and kept one deleted
\* 5 days before
C11_Witness ==
    /\ last.op = "cleanup"
    /\ last.days = 30
    /\ last.removed = 1
    /\ \E i \in 1..Len(last.pre.manifest.items) :
          last.pre.manifest.items[i].deleted_at = last.at - 31 * DaySeconds
    /\ Len(manifest.items) = 1
    /\ manifest.items[1].deleted_at = last.at - 5 * DaySeconds

(***************************************************************************)
(* Project listing.  A slot of store is one session log: for Claude the    *)
(* one log of a project directory of its own (the slot's mtime is the      *)
(* directory's), for Codex a log somewhere under the sessions directory.   *)
(* The slot's cwd is the working directory scraped from the log's first    *)
(* line that has one; NoCwd when no line has.                              *)
(***************************************************************************)

ProjectCwds == {NoCwd, "C:/proj", "c:\\proj", "C:/Proj"}
Queries == {"C:/proj", "c:\\proj"}
Limits == {0, 1, 2}

\* the label a Codex log without a working directory is grouped under
UnknownDir == "unknown"

\* the name of the project directory that holds a Claude log
ProjectDir(n) ==
    CASE n = "s1.jsonl" -> "d1"
      [] n = "rollout-s2.jsonl" -> "d2"
      [] OTHER -> "d3"

\* cwd.replace('\\', "/").to_lowercase()
FoldCwd(w) ==
    IF w \in {"C:/proj", "c:\\proj", "C:/Proj", "C:\\proj", "C:\\Proj"} THEN "c:/proj" ELSE w

Present(st) == {n \in DOMAIN st : st[n].present}

\* dirs.sort_by(|a, b| b_time.cmp(&a_time)): stable, descending
RECURSIVE InsertByMtime(_, _, _)
InsertByMtime(st, sorted, e) ==
    IF sorted = <<>> THEN <<e>>
    ELSE IF st[Head(sorted).log].mtime >= st[e.log].mtime
         THEN <<Head(sorted)>> \o InsertByMtime(st, Tail(sorted), e)
         ELSE <<e>> \o sorted

RECURSIVE SortByMtime(_, _, _)
SortByMtime(st, es, sorted) ==
    IF es = <<>> THEN sorted
    ELSE SortByMtime(st, Tail(es), InsertByMtime(st, sorted, Head(es)))

\* truncate(limit), which the callers reach with limit > 0 only
Truncate(l, limit) ==
    IF limit > 0 /\ Len(l) > limit THEN SubSeq(l, 1, limit) ELSE l

ClaudeProjectOf(st, n) ==
    [id |-> ProjectDir(n), cwd |-> st[n].cwd, last_modified |-> st[n].mtime,
     session_count |-> 1]

\* ClaudeProvider::list_projects: the directories sorted, then cut to limit, then
\* each made a Project unless its name is not valid UTF-8
ClaudeListProjects(st, order, limit) ==
    LET ds == Truncate(SortByMtime(st, SelectSeq(order, LAMBDA e : st[e.log].present), <<>>),
                       limit)
        named == SelectSeq(ds, LAMBDA e : e.utf8)
    IN  [i \in 1..Len(named) |-> ClaudeProjectOf(st, named[i].log)]

MaxOf(S) == CHOOSE x \in S : \A y \in S : y <= x

\* the cwd_map of scan_sessions_by_cwd: normalized working directory -> newest mtime
CwdMap(st) ==
    LET key(n) == NormalizePath(IF st[n].cwd = NoCwd THEN UnknownDir ELSE st[n].cwd)
    IN  [id \in {key(n) : n \in Present(st)} |->
            MaxOf({0} \cup {st[n].mtime : n \in {k \in Present(st) : key(k) = id}})]

\* the orders sort_by can leave the entries of a HashMap in: descending by mtime,
\* equal mtimes in the order the map happened to iterate
SortedOrders(m) ==
    {o \in Orders(DOMAIN m) : \A i \in 1..(Len(o) - 1) : m[o[i]] >= m[o[i + 1]]}

\* scan_sessions_by_cwd: the maps it can return
ScanSessionsByCwd(st, limit) ==
    LET m == CwdMap(st) IN
    IF limit > 0
    THEN {[id \in {Truncate(o, limit)[i] : i \in 1..Len(Truncate(o, limit))} |-> m[id]] :
             o \in SortedOrders(m)}
    ELSE {m}

CodexProjectOf(m, id) ==
    [id |-> id, cwd |-> id, last_modified |-> m[id], session_count |-> 0]

\* CodexProvider::list_projects: the lists it can return
CodexListProjects(st, limit) ==
    UNION {{[i \in 1..Len(o) |-> CodexProjectOf(m, o[i])] : o \in SortedOrders(m)} :
              m \in ScanSessionsByCwd(st, limit)}

ListProjects(c, st, order, limit) ==
    IF c = "claude" THEN {ClaudeListProjects(st, order, limit)}
    ELSE CodexListProjects(st, limit)

\* .find(|p| folded p.cwd == folded cwd): <<>> is None
FirstMatch(l, q) ==
    LET hits == SelectSeq(l, LAMBDA p : p.cwd # NoCwd /\ FoldCwd(p.cwd) = FoldCwd(q))
    IN  IF hits = <<>> THEN <<>> ELSE <<Head(hits)>>

\* find_project_by_cwd: the answers it can give
FindProjectByCwd(c, st, order, q) ==
    {FirstMatch(l, q) : l \in ListProjects(c, st, order, 0)}

ProjIdle == UNCHANGED <<trashVars, raceVars, cacheVars, parseVars, pageVars, hostVars>>

\* the CLI starts a session log
CreateLog(n, w, t) ==
    /\ ~store[n].present
    /\ store' = [store EXCEPT ![n] = [present |-> TRUE, cwd |-> w, mtime |-> t]]
    /\ pcall' = NoProjCall
    /\ UNCHANGED dorder
    /\ ProjIdle

\* the CLI writes to a log that is there: a later mtime, the first cwd stays
TouchLog(n, t) ==
    /\ store[n].present
    /\ t > store[n].mtime
    /\ store' = [store EXCEPT ![n].mtime = t]
    /\ pcall' = NoProjCall
    /\ UNCHANGED dorder
    /\ ProjIdle

\* the user removes a session log
RemoveLog(n) ==
    /\ store[n].present
    /\ store' = [store EXCEPT ![n] = NoSlot]
    /\ pcall' = NoProjCall
    /\ UNCHANGED dorder
    /\ ProjIdle

ListProjectsCall(limit) ==
    /\ \E r \in ListProjects(cli, store, dorder, limit) :
          pcall' = [op |-> "list_projects", arg |-> NoPath, limit |-> limit, result |-> r]
    /\ UNCHANGED <<store, dorder>>
    /\ ProjIdle

FindProjectByCwdCall(q) ==
    /\ \E r \in FindProjectByCwd(cli, store, dorder, q) :
          pcall' = [op |-> "find_project_by_cwd", arg |-> q, limit |-> 0, result |-> r]
    /\ UNCHANGED <<store, dorder>>
    /\ ProjIdle

InitProj ==
    /\ RaceTrashInit
    /\ RaceInit
    /\ CacheInit
    /\ ParseInit
    /\ PageInit
    /\ store = [n \in LogNames |-> NoSlot]
    /\ dorder \in DirOrders
    /\ pcall = NoProjCall
    /\ HostInit

NextProj ==
    \/ \E n \in LogNames, w \in ProjectCwds, t \in Mtimes : CreateLog(n, w, t)
    \/ \E n \in LogNames, t \in Mtimes : TouchLog(n, t)
    \/ \E n \in LogNames : RemoveLog(n)
    \/ \E limit \in Limits : ListProjectsCall(limit)
    \/ \E q \in Queries : FindProjectByCwdCall(q)

SpecProj == InitProj /\ [][NextProj]_vars

\* C13: two working-directory strings that differ only in letter case and in the
\* separator find the same project, or both none: whatever find_project_by_cwd
\* just answered is the only answer it can give to any such spelling of the query
C13_FindIgnoresCaseAndSeparator ==
    pcall.op = "find_project_by_cwd" =>
        \A q \in Queries :
            FoldCwd(q) = FoldCwd(pcall.arg) =>
                FindProjectByCwd(cli, store, dorder, q) = {pcall.result}

\* the same, where no two projects are modified at the same time
C13_FindIgnoresCaseAndSeparatorNoTie ==
    (/\ pcall.op = "find_project_by_cwd"
     /\ \A a, b \in Present(store) : a # b => store[a].mtime # store[b].mtime) =>
        \A q \in Queries :
            FoldCwd(q) = FoldCwd(pcall.arg) =>
                FindProjectByCwd(cli, store, dorder, q) = {pcall.result}

\* a project was found under a spelling other than the one its logs carry
C13_Witness ==
    /\ pcall.op = "find_project_by_cwd"
    /\ pcall.result # <<>>
    /\ pcall.result[1].cwd # pcall.arg
    /\ \E n \in Present(store) : store[n].cwd = "C:/Proj"

\* the content of the logs of store, as far as the listings look: one user
\* message, with the working directory the slot records
LogsOf(st) ==
    [n \in Present(st) |-> <<JsonLine("user", 1, FALSE, FALSE, st[n].cwd)>>]

\* the files of the records of a listing
FilesOf(rs) == {rs[i].file_path : i \in 1..Len(rs)}

\* list_projects has one project for the logs a and b, and load_project of its id
\* returns the sessions of both
Together(a, b) ==
    \E i \in 1..Len(pcall.result) :
        \A rs \in LoadProject("codex", LogsOf(store), pcall.result[i].id) :
            {a, b} \subseteq FilesOf(rs)

\* C14: for Codex, two logs whose scraped working directories differ only in
\* separator style or in letter case are listed under one project id by
\* list_projects, and load_project of that id returns the sessions of both
C14_NoSpuriousSplit ==
    (cli = "codex" /\ pcall.op = "list_projects" /\ pcall.limit = 0) =>
        \A a, b \in Present(store) :
            (/\ store[a].cwd # NoCwd
             /\ store[b].cwd # NoCwd
             /\ FoldCwd(store[a].cwd) = FoldCwd(store[b].cwd)) => Together(a, b)

\* the same for directories that differ in the separator and the case of the
\* drive letter only
C14_NoSplitOnSeparatorOrDrive ==
    (cli = "codex" /\ pcall.op = "list_projects" /\ pcall.limit = 0) =>
        \A a, b \in Present(store) :
            (store[a].cwd \in Queries /\ store[b].cwd \in Queries) => Together(a, b)

\* two logs with differently spelled directories were listed as one project
C14_Witness ==
    /\ cli = "codex" /\ pcall.op = "list_projects" /\ pcall.limit = 0
    /\ \E a, b \in Present(store) :
          /\ store[a].cwd = "C:/proj"
          /\ store[b].cwd = "c:\\proj"
          /\ Together(a, b)

\* the projects on disk and when each was last modified: for Claude the project
\* directories with a name a Project can carry, for Codex the normalized working
\* directories of the logs, each as new as its newest log
ProjectsOnDisk ==
    IF cli = "claude"
    THEN {[id |-> ProjectDir(dorder[i].log), last_modified |-> store[dorder[i].log].mtime] :
             i \in {k \in 1..Len(dorder) : dorder[k].utf8 /\ store[dorder[k].log].present}}
    ELSE LET dirOf(n) == IF store[n].cwd = NoCwd THEN UnknownDir
                         ELSE NormalizePath(store[n].cwd)
         IN  {[id |-> dirOf(n), last_modified |-> store[n].mtime] : n \in
                 {k \in Present(store) :
                     \A o \in Present(store) :
                         dirOf(o) = dirOf(k) => store[o].mtime <= store[k].mtime}}

ListedProjects ==
    {[id |-> pcall.result[i].id, last_modified |-> pcall.result[i].last_modified] :
        i \in 1..Len(pcall.result)}

\* C18: list_projects(limit) returns projects sorted by last_modified descending;
\* with limit > 0 at most limit of them, the most recently modified ones, and
\* with limit = 0 every project
C18_ListSortedAndLimited ==
    pcall.op = "list_projects" =>
        /\ \A i, j \in 1..Len(pcall.result) :
              i < j => pcall.result[i].last_modified >= pcall.result[j].last_modified
        /\ ListedProjects \subseteq ProjectsOnDisk
        /\ Cardinality(ListedProjects) = Len(pcall.result)
        /\ pcall.limit = 0 => ListedProjects = ProjectsOnDisk
        /\ pcall.limit > 0 =>
              /\ Len(pcall.result) <= pcall.limit
              /\ Len(pcall.result) < pcall.limit => ListedProjects = ProjectsOnDisk
              /\ \A p \in ProjectsOnDisk \ ListedProjects, q \in ListedProjects :
                    p.last_modified <= q.last_modified

\* the same, where every directory name is valid UTF-8
C18_ListSortedAndLimitedUtf8 ==
    (\A i \in 1..Len(dorder) : dorder[i].utf8) => C18_ListSortedAndLimited

\* three projects modified at three times, listed with limit 2: the two newest
C18_Witness ==
    /\ pcall.op = "list_projects"
    /\ pcall.limit = 2
    /\ Cardinality(ProjectsOnDisk) = 3
    /\ Len(pcall.result) = 2
    /\ pcall.result[1].last_modified > pcall.result[2].last_modified
    /\ \E p \in ProjectsOnDisk : p.last_modified < pcall.result[2].last_modified

(***************************************************************************)
(* Keyword search over the logs of logdir.                                 *)
(***************************************************************************)

Keywords == {"PROJ"}
SearchLimits == {0, 1, 2}

\* line.to_lowercase().contains(&keyword_lower), on what a line's text is known
\* to hold: its working directory, whose spellings all hold "proj"
Mentions(ln, kw) == kw = "PROJ" /\ ln.cwd # NoCwd

\* the files with a line that holds the keyword
Matching(dir, kw) ==
    {n \in DOMAIN dir : \E i \in 1..Len(dir[n]) : Mentions(dir[n][i], kw)}

\* what filter_map lets through: the parse of every matching file, unless None
SearchHits(c, dir, kw) ==
    {ParseSessionInfo(c, n, dir[n])[1] :
        n \in {k \in Matching(dir, kw) : ParseSessionInfo(c, k, dir[k]) # <<>>}}

\* a variant that takes everything
TakeAnyAll(H, limit) == {H}

\* take_any(limit): any limit of the items, all of them when there are fewer
TakeAny(H, limit) ==
    {some \in SUBSET H :
        Cardinality(some) = IF limit < Cardinality(H) THEN limit ELSE Cardinality(H)}

\* search: the lists it can return; the items taken stay in the order of the
\* files, which is any order
Search(c, dir, kw, limit) ==
    UNION {Orders(some) : some \in TakeAny(SearchHits(c, dir, kw), limit)}

SearchCall(kw, limit) ==
    /\ \E r \in Search(cli, logdir, kw, limit) :
          pres' = [op |-> "search", id |-> kw, limit |-> limit, result |-> r]
    /\ UNCHANGED logdir
    /\ ParseIdle

NextSearch ==
    \/ \E n \in LogNames, ln \in Lines : AppendLine(n, ln)
    \/ \E kw \in Keywords, limit \in SearchLimits : SearchCall(kw, limit)

SpecSearch == InitParse /\ [][NextSearch]_vars

(***************************************************************************)
(* Claims about the session listings of SpecParse.                          *)
(***************************************************************************)

C16_SearchSortedDesc ==
    pres.op = "search" =>
        \A i, j \in 1..Len(pres.result) :
            i < j => pres.result[i].last_timestamp >= pres.result[j].last_timestamp

\* a search that returned two sessions that ended at different times
C16_Witness ==
    /\ pres.op = "search"
    /\ Len(pres.result) = 2
    /\ pres.result[1].last_timestamp # pres.result[2].last_timestamp

\* a log passes the filter: it has a real user turn (which is a message) and a
\* timestamp, on lines the parser does not skip
PassesFilter(c, lines) ==
    /\ \E i \in 1..Len(lines) : ~Skipped(c, lines[i]) /\ RealUserLine(c, lines[i])
    /\ \E i \in 1..Len(lines) : ~Skipped(c, lines[i]) /\ lines[i].ts # NoTs

\* the logs a search for the keyword of the last call may return
Qualifying ==
    {n \in LogNames :
        /\ \E i \in 1..Len(logdir[n]) : Mentions(logdir[n][i], pres.id)
        /\ PassesFilter(cli, logdir[n])}

\* C17: search(keyword, limit) returns at most limit records; every record comes
\* from a file with a line that holds the keyword, and has message_count >= 1,
\* user_turn_count >= 1 and a timestamp; when at most limit files match and
\* pass the filter, all of them are returned
C17_SearchBounded ==
    pres.op = "search" =>
        /\ Len(pres.result) <= pres.limit
        /\ Cardinality(FilesOf(pres.result)) = Len(pres.result)
        /\ \A r \in Returned :
              /\ \E i \in 1..Len(logdir[r.file_path]) :
                    Mentions(logdir[r.file_path][i], pres.id)
              /\ r.message_count >= 1
              /\ r.user_turn_count >= 1
              /\ r.first_timestamp # NoTs \/ r.last_timestamp # NoTs
        /\ FilesOf(pres.result) \subseteq Qualifying
        /\ Cardinality(Qualifying) <= pres.limit => FilesOf(pres.result) = Qualifying

\* two logs qualify and the limit is one: one of them is returned
C17_Witness ==
    /\ pres.op = "search"
    /\ pres.limit = 1
    /\ Cardinality(Qualifying) = 2
    /\ Len(pres.result) = 1

\* the real user turns of a log
UserTurns(c, lines) == {i \in 1..Len(lines) : RealUserLine(c, lines[i])}

C19_AgentLogLeftOut ==
    /\ pres.op = "load_project"
    /\ pres.id = ClaudeProject
    /\ cli = "claude"
    /\ ParseSessionInfo(cli, "agent-s3.jsonl", logdir["agent-s3.jsonl"]) # <<>>
    /\ Cardinality(UserTurns(cli, logdir["agent-s3.jsonl"])) = 2

\* a log without its interruption-marker lines
Unmarked(lines) == SelectSeq(lines, LAMBDA ln : ~ln.marker)

\* the record is the one the log gives without its marker lines
AsIfUnmarked(r) ==
    LET clean == ParseSessionInfo(cli, r.file_path, Unmarked(logdir[r.file_path])) IN
    /\ clean # <<>>
    /\ r.message_count = clean[1].message_count
    /\ r.user_turn_count = clean[1].user_turn_count
    /\ r.cwd = clean[1].cwd
    /\ r.first_timestamp = clean[1].first_timestamp
    /\ r.last_timestamp = clean[1].last_timestamp

\* C20: both parsers skip a line recognized as a system interruption marker; it
\* adds nothing to message_count, user_turn_count, the working directory or the
\* first and last timestamp of the record
C20_MarkerLinesSkipped ==
    pres.op = "load_project" => \A r \in Returned : AsIfUnmarked(r)

\* the same for the Claude parser alone
C20_ClaudeMarkerLinesSkipped ==
    (pres.op = "load_project" /\ cli = "claude") => \A r \in Returned : AsIfUnmarked(r)

\* Claude listed a session whose log has a marker line
C20_Witness ==
    /\ pres.op = "load_project"
    /\ cli = "claude"
    /\ \E r \in Returned :
          \E i \in 1..Len(logdir[r.file_path]) : logdir[r.file_path][i].marker

(***************************************************************************)
(* Cache-assisted host calls.  One project, of working directory HostCwd,  *)
(* holds the logs of files; a log of count k is k user messages, the first *)
(* carrying the working directory.  The clock of these calls starts one    *)
(* second after the epoch.  A call finds the durable store of its source   *)
(* type usable (ok) or not: then every query and every write of it fails.  *)
(***************************************************************************)

\* "gemini" stands for every source type that is not supported
TypeNames == {"claude", "codex", "gemini"}
Counts == {1, 2, 3}
HostCwd == "C:/proj"
HostQueries == {"c:\\proj", "D:/none"}
Outcomes == BOOLEAN
HostClock == now + 1

HostLog(f) ==
    [i \in 1..f.count |-> IF i = 1 THEN JsonLine("user", 1, FALSE, FALSE, HostCwd)
                          ELSE JsonLine("user", 2, FALSE, FALSE, NoCwd)]

HostDir(fs) == [n \in {k \in HostFiles : fs[k].present} |-> HostLog(fs[n])]

\* the id of the project: its directory name for Claude, its normalized cwd for Codex
ProjectIdFor(c) == IF c = "claude" THEN ClaudeProject ELSE NormalizePath(HostCwd)

\* find_project_by_cwd over the one project: <<>> is None
FindLive(c, fs, cwd) ==
    IF DOMAIN HostDir(fs) # {} /\ FoldCwd(cwd) = FoldCwd(HostCwd)
    THEN <<ProjectIdFor(c)>> ELSE <<>>

\* the history_cache table of a source type; no table before the first write
TableOf(tbls, c) == IF c \in DOMAIN tbls THEN tbls[c] ELSE {}

\* the row update_cache_entry writes
CacheRow(c, pid, s, m) ==
    [file_path |-> s.file_path, cli_type |-> c, project_id |-> pid, session_id |-> s.id,
     message_count |-> s.message_count, user_turn_count |-> s.user_turn_count,
     first_timestamp |-> s.first_timestamp, last_timestamp |-> s.last_timestamp,
     file_mtime |-> m, project_cwd |-> s.cwd]

\* is_cache_valid with its early returns: false when the store cannot be used
IsCacheValidGuarded(tbl, p, o, ok) == IF ~ok THEN {FALSE} ELSE IsCacheValid(tbl, p, o)

\* the test before update_cache_entry: refresh_history_on_startup asks for an
\* mtime after the last startup (since) too
Stale(s, fs, tbl, since, ok) ==
    /\ fs[s.file_path].mtime > since
    /\ TRUE \notin IsCacheValidGuarded(tbl, s.file_path, fs[s.file_path].mtime, ok)

\* the loop over the sessions: the table after it
RECURSIVE RefreshRows(_, _, _, _, _, _)
RefreshRows(c, pid, ss, fs, tbl, since) ==
    IF ss = <<>> THEN tbl
    ELSE RefreshRows(c, pid, Tail(ss), fs,
            IF Stale(Head(ss), fs, tbl, since, TRUE)
            THEN InsertOrReplace(tbl, CacheRow(c, pid, Head(ss), fs[Head(ss).file_path].mtime))
            ELSE tbl,
            since)

\* get_last_startup_time
GetLastStartupTime(kvs, c, ok) == IF ok /\ c \in DOMAIN kvs THEN kvs[c] ELSE 0

\* a variant that lets every row through
ListableAny(r) == TRUE

\* AND message_count > 1 AND user_turn_count > 0
\* AND (first_timestamp IS NOT NULL OR last_timestamp IS NOT NULL)
Listable(r) ==
    /\ r.message_count > 1
    /\ r.user_turn_count > 0
    /\ r.first_timestamp # NoTs \/ r.last_timestamp # NoTs

\* load_project_from_cache: the lists the query can return; equal
\* last_timestamps come in any order
LoadProjectFromCache(tbl, pid, ok) ==
    IF ~ok THEN {<<>>}
    ELSE LET hit == {r \in tbl : r.project_id = pid /\ Listable(r)}
         IN  {[i \in 1..Len(o) |->
                 [id |-> o[i].session_id, file_path |-> o[i].file_path,
                  message_count |-> o[i].message_count,
                  first_timestamp |-> o[i].first_timestamp,
                  last_timestamp |-> o[i].last_timestamp, cwd |-> o[i].project_cwd,
                  user_turn_count |-> o[i].user_turn_count, file_size |-> 0]] :
              o \in {q \in Orders(hit) : \A i \in 1..(Len(q) - 1) :
                                           q[i].last_timestamp >= q[i + 1].last_timestamp}}

\* find_project_by_cwd_cached: <<>> is None
FindProjectByCwdCached(tbl, cwd, ok) ==
    LET hit == {r \in tbl : r.project_cwd # NoCwd /\ FoldCwd(r.project_cwd) = FoldCwd(cwd)}
    IN  IF ~ok \/ hit = {} THEN {<<>>}
        ELSE {<<[id |-> r.project_id, cwd |-> r.project_cwd, last_modified |-> 0,
                 session_count |-> Cardinality({x \in tbl : /\ x.project_id = r.project_id
                                                             /\ x.project_cwd # NoCwd})]>> :
              r \in hit}

HostIdle ==
    /\ UNCHANGED <<trashVars, raceVars, parseVars, pageVars, projVars>>
    /\ UNCHANGED <<shadow, cres, dblock, mbytes>>

HostCall(op, c, arg, ok, err, result, count, parsed) ==
    [op |-> op, type |-> c, arg |-> arg, ok |-> ok, err |-> err, result |-> result,
     count |-> count, parsed |-> parsed, at |-> HostClock, mem |-> rcall.mem,
     pre |-> [cache |-> cache, conns |-> conns, kv |-> kv, lru |-> lru, trash |-> Cur]]

\* the CLI appends to a log, or starts it
FileWrite(n, k) ==
    /\ k > files[n].count
    /\ files' = [files EXCEPT ![n] = [present |-> TRUE, mtime |-> HostClock, count |-> k]]
    /\ rcall' = [NoHostCall EXCEPT !.mem = rcall.mem]
    /\ UNCHANGED <<cache, conns, kv, lru>>
    /\ HostIdle

SetTable(c, tbl) == IF c \in DOMAIN cache THEN [cache EXCEPT ![c] = tbl] ELSE cache

RefreshAndLoadSessions(c, cwd, oks) ==
    \E ok \in oks :
        LET found == c \in {"claude", "codex"} /\ FindLive(c, files, cwd) # <<>>
            pid == ProjectIdFor(c)
        IN  \E ss \in (IF found THEN LoadProject(c, HostDir(files), pid) ELSE {<<>>}) :
                /\ cache' = IF ok THEN SetTable(c, RefreshRows(c, pid, ss, files,
                                                              TableOf(cache, c), -1))
                            ELSE cache
                /\ conns' = IF ok /\ ss # <<>> THEN GetDb(conns, c) ELSE conns
                /\ rcall' = HostCall("refresh_and_load_sessions", c, cwd, ok, FALSE, ss, 0,
                                     IF found THEN Listed(c, HostDir(files), pid) ELSE {})
                /\ UNCHANGED <<kv, files, lru>>
                /\ HostIdle

RefreshHistoryOnStartup(c, oks) ==
    \E ok \in oks :
        LET since == GetLastStartupTime(kv, c, ok)
            tbl == TableOf(cache, c)
        IN  \E ss \in (IF c = "claude"
                       THEN LoadProject(c, HostDir(files), ClaudeProject) ELSE {<<>>}) :
                /\ kv' = IF ok THEN Put(kv, c, HostClock) ELSE kv
                /\ conns' = IF ok THEN GetDb(conns, c) ELSE conns
                /\ cache' = IF ok THEN SetTable(c, RefreshRows(c, ClaudeProject, ss, files,
                                                              tbl, since))
                            ELSE cache
                /\ rcall' = HostCall("refresh_history_on_startup", c, NoPath, ok, FALSE, ss,
                                Cardinality({i \in 1..Len(ss) :
                                                Stale(ss[i], files, tbl, since, ok)}),
                                IF c = "claude" THEN Listed(c, HostDir(files), ClaudeProject)
                                ELSE {})
                /\ UNCHANGED <<files, lru>>
                /\ HostIdle

LoadProjectFromCacheCall(c, pid, oks) ==
    \E ok \in oks :
        /\ \E r \in LoadProjectFromCache(TableOf(cache, c), pid, ok) :
              rcall' = HostCall("load_project_from_cache", c, pid, ok, FALSE, r, 0, {})
        /\ conns' = IF ok THEN GetDb(conns, c) ELSE conns
        /\ UNCHANGED <<cache, kv, files, lru>>
        /\ HostIdle

FindProjectByCwdCachedCall(c, cwd, oks) ==
    \E ok \in oks :
        /\ \E r \in FindProjectByCwdCached(TableOf(cache, c), cwd, ok) :
              rcall' = HostCall("find_project_by_cwd_cached", c, cwd, ok, FALSE, r, 0, {})
        /\ conns' = IF ok THEN GetDb(conns, c) ELSE conns
        /\ UNCHANGED <<cache, kv, files, lru>>
        /\ HostIdle

\* a variant that empties the table of every source type
DeleteFromEveryCache(c) == [d \in DOMAIN cache |-> {}]

\* DELETE FROM history_cache, in the database of the source type
DeleteFromHistoryCache(c) == SetTable(c, {})

\* clear_cache: the error of a store that cannot be used goes to the caller
ClearCacheCall(c, oks) ==
    \E ok \in oks :
        /\ cache' = IF ok THEN DeleteFromHistoryCache(c) ELSE cache
        /\ conns' = IF ok THEN GetDb(conns, c) ELSE conns
        /\ rcall' = HostCall("clear_cache", c, NoPath, ok, ~ok, <<>>,
                             IF ok THEN Cardinality(TableOf(cache, c)) ELSE 0, {})
        /\ UNCHANGED <<kv, files, lru>>
        /\ HostIdle

\* a second passes, once something carries the time of this one
HostTick ==
    /\ Tick(1)
    /\ \/ \E n \in HostFiles : files[n].present /\ files[n].mtime = HostClock
       \/ \E c \in DOMAIN kv : kv[c] = HostClock

InitHost ==
    /\ RaceTrashInit
    /\ RaceInit
    /\ CacheInit
    /\ ParseInit
    /\ PageInit
    /\ ProjInit
    /\ HostInit

\* the calls of the supported source type of this installation, the store usable
NextHost ==
    \/ \E n \in HostFiles, k \in Counts : FileWrite(n, k)
    \/ HostTick
    \/ \E cwd \in HostQueries : RefreshAndLoadSessions(cli, cwd, {TRUE})
    \/ RefreshHistoryOnStartup(cli, {TRUE})
    \/ LoadProjectFromCacheCall(cli, ProjectIdFor(cli), {TRUE})
    \/ \E cwd \in HostQueries : FindProjectByCwdCachedCall(cli, cwd, {TRUE})
    \/ ClearCacheCall(cli, {TRUE})

SpecHost == InitHost /\ [][NextHost]_vars

\* the rows of the source type of the last call, now and before the call
RowsNow == TableOf(cache, rcall.type)
RowsBefore == TableOf(rcall.pre.cache, rcall.type)

LiveListed ==
    IF rcall.type \in {"claude", "codex"}
    THEN UNION {{ss[i].file_path : i \in 1..Len(ss)} :
                ss \in LoadProject(rcall.type, HostDir(files), ProjectIdFor(rcall.type))}
    ELSE {}

\* the file has a row of at least its present mtime in the table
ValidIn(tbl, n) == \E r \in tbl : r.file_path = n /\ r.file_mtime >= files[n].mtime

\* the rows the call left as they were, and the rows it wrote
RowsKept == RowsNow \cap RowsBefore
RowsWritten == RowsNow \ RowsBefore

\* the startup time recorded before the last call
SinceBefore == IF rcall.type \in DOMAIN rcall.pre.kv THEN rcall.pre.kv[rcall.type] ELSE 0

\* the listed files a startup refresh has to write again
DueAtStartup == {n \in LiveListed : files[n].mtime > SinceBefore /\ ~ValidIn(RowsBefore, n)}

StartupAsSpecified ==
    /\ {r.file_path : r \in RowsWritten} = DueAtStartup
    /\ \A n \in DueAtStartup : ValidIn(RowsNow, n)
    /\ \A r \in RowsBefore : r.file_path \notin DueAtStartup => r \in RowsNow
    /\ rcall.type \in DOMAIN kv /\ kv[rcall.type] = rcall.at
    /\ rcall.count = Cardinality(DueAtStartup)

\* C27: refresh_history_on_startup(type), for each supported source type, writes
\* a cache entry exactly for the listed session files whose mtime is greater
\* than the previously recorded startup time and whose entry is not valid,
\* leaves every other entry unchanged, records the current time as the new
\* startup time and returns the number of entries it wrote
C27_StartupRefresh ==
    rcall.op = "refresh_history_on_startup" /\ rcall.ok => StartupAsSpecified

\* C27, as far as the code goes: the same for the Claude source type only
C27_StartupRefreshClaude ==
    rcall.op = "refresh_history_on_startup" /\ rcall.ok /\ rcall.type = "claude"
        => StartupAsSpecified

\* a startup refresh of Codex with a listed file newer than the last startup
\* and no entry for it
C27_Witness ==
    /\ rcall.op = "refresh_history_on_startup"
    /\ rcall.ok
    /\ rcall.type = "codex"
    /\ DueAtStartup # {}

\* a startup refresh of Claude that writes one file and leaves a valid row alone
C27_WitnessClaude ==
    /\ rcall.op = "refresh_history_on_startup"
    /\ rcall.ok
    /\ rcall.type = "claude"
    /\ rcall.count = 1
    /\ RowsKept # {}

\* the row carries what the returned session says
Carries(r, x) ==
    /\ r.file_path = x.file_path
    /\ r.project_id = ProjectIdFor(rcall.type)
    /\ r.session_id = x.id
    /\ r.message_count = x.message_count
    /\ r.user_turn_count = x.user_turn_count
    /\ r.first_timestamp = x.first_timestamp
    /\ r.last_timestamp = x.last_timestamp
    /\ r.project_cwd = x.cwd

\* a refresh_and_load_sessions call whose cache writes all succeeded
Refreshed == rcall.op = "refresh_and_load_sessions" /\ rcall.ok

\* C28: after refresh_and_load_sessions returns with all cache writes
\* succeeding, every session it returned has a cache entry valid for the file's
\* current mtime that carries the session's project id, session id, counts,
\* timestamps and working directory; entries already valid are left unchanged
C28_RefreshedEntriesCarrySessions ==
    Refreshed =>
        /\ \A i \in 1..Len(rcall.result) :
              \E r \in RowsNow : /\ r.file_mtime >= files[r.file_path].mtime
                                 /\ Carries(r, rcall.result[i])
        /\ \A r \in RowsBefore : ValidIn({r}, r.file_path) => r \in RowsNow

\* C28, as far as the code goes: every returned session has a valid entry, the
\* entries the call wrote carry their sessions, the valid ones are unchanged
C28_WrittenEntriesCarrySessions ==
    Refreshed =>
        /\ \A i \in 1..Len(rcall.result) :
              /\ ValidIn(RowsNow, rcall.result[i].file_path)
              /\ \A r \in RowsWritten :
                    r.file_path = rcall.result[i].file_path => Carries(r, rcall.result[i])
        /\ \A r \in RowsBefore : ValidIn({r}, r.file_path) => r \in RowsNow

\* a refresh that returns a session whose file grew within the second of its
\* cached mtime
C28_Witness ==
    /\ Refreshed
    /\ \E i \in 1..Len(rcall.result) : \E r \in RowsKept :
          /\ r.file_path = rcall.result[i].file_path
          /\ r.file_mtime = files[r.file_path].mtime
          /\ r.message_count < rcall.result[i].message_count

\* a refresh that writes the entry of one session and keeps the valid entry of
\* another
C28_WitnessWritten ==
    /\ Refreshed
    /\ Len(rcall.result) = 2
    /\ RowsWritten # {}
    /\ RowsKept # {}

\* C30: during refresh_and_load_sessions a log file whose cache entry is valid
\* for its current mtime is not parsed again; only files with a stale or
\* missing entry are parsed
C30_ValidEntryNotParsed ==
    Refreshed => \A n \in rcall.parsed : ~ValidIn(RowsBefore, n)

\* a refresh that parses a file whose entry was valid and writes nothing
C30_Witness ==
    /\ Refreshed
    /\ \E n \in rcall.parsed : ValidIn(RowsBefore, n)
    /\ RowsWritten = {}

(***************************************************************************)
(* The same calls within one second, for the source type of the            *)
(* installation and for an unsupported one, the store usable or not.       *)
(***************************************************************************)

Callers == {cli, "gemini"}

NextFaulty ==
    \/ \E n \in HostFiles, k \in Counts : FileWrite(n, k)
    \/ \E c \in Callers, cwd \in HostQueries : RefreshAndLoadSessions(c, cwd, Outcomes)
    \/ \E c \in Callers : RefreshHistoryOnStartup(c, Outcomes)
    \/ \E c \in Callers : LoadProjectFromCacheCall(c, ProjectIdFor(cli), Outcomes)
    \/ \E c \in Callers, cwd \in HostQueries : FindProjectByCwdCachedCall(c, cwd, Outcomes)
    \/ \E c \in Callers : ClearCacheCall(c, Outcomes)

SpecFaulty == InitHost /\ [][NextFaulty]_vars

\* the last call was one of the cache-assisted host calls
HostOps == {"refresh_and_load_sessions", "refresh_history_on_startup",
            "load_project_from_cache", "find_project_by_cwd_cached", "clear_cache"}

\* C22: a host call with an unknown source type reports an error and has no
\* effect: no database file is created, no cache entry or startup time is
\* written, no trash state is touched
C22_UnknownTypeRefused ==
    rcall.op \in HostOps /\ rcall.type \notin {"claude", "codex"} =>
        /\ rcall.err
        /\ conns = rcall.pre.conns
        /\ cache = rcall.pre.cache
        /\ kv = rcall.pre.kv
        /\ Cur = rcall.pre.trash

\* a startup refresh for an unknown source type that returns without error,
\* having created the database of that type and recorded a startup time in it
C22_Witness ==
    /\ rcall.op = "refresh_history_on_startup"
    /\ rcall.type = "gemini"
    /\ ~rcall.err
    /\ "gemini" \in conns \ rcall.pre.conns
    /\ "gemini" \in DOMAIN kv

\* what the reads give when the store cannot be used
ReadsDegrade ==
    /\ \A n \in HostFiles :
          IsCacheValidGuarded(TableOf(cache, cli), n, files[n].mtime, FALSE) = {FALSE}
    /\ GetLastStartupTime(kv, cli, FALSE) = 0
    /\ ~rcall.ok /\ rcall.op \in {"load_project_from_cache", "find_project_by_cwd_cached"}
          => rcall.result = <<>> /\ ~rcall.err
    /\ ~rcall.ok /\ rcall.op = "refresh_history_on_startup"
          => /\ ~rcall.err
             /\ rcall.count = Cardinality({n \in LiveListed : rcall.type = "claude"
                                                              /\ files[n].mtime > 0})
             /\ kv = rcall.pre.kv
    /\ ~rcall.ok /\ rcall.op = "refresh_and_load_sessions"
          => /\ ~rcall.err
             /\ cache = rcall.pre.cache
             /\ rcall.result \in
                   (IF rcall.type \in {"claude", "codex"}
                       /\ FindLive(rcall.type, files, rcall.arg) # <<>>
                    THEN LoadProject(rcall.type, HostDir(files), ProjectIdFor(rcall.type))
                    ELSE {<<>>})

\* C23: cache failures never fail a request: with the store of a source type
\* unusable is_cache_valid is false, load_project_from_cache is empty,
\* find_project_by_cwd_cached is None, get_last_startup_time is 0, and
\* refresh_and_load_sessions returns the full live-scan result
C23_CacheFailuresNeverFail ==
    /\ ReadsDegrade
    /\ ~rcall.ok => ~rcall.err

\* C23, as far as the code goes: the reads and the two refreshes degrade
C23_ReadsDegrade == ReadsDegrade

\* clear_cache with the store unusable: the error reaches the caller
C23_Witness ==
    /\ rcall.op = "clear_cache"
    /\ ~rcall.ok
    /\ rcall.err
    /\ rcall.type = cli

\* a refresh with every cache write failing that returns two live sessions,
\* beside a valid cached entry that a failing is_cache_valid does not see
C23_WitnessDegraded ==
    /\ rcall.op = "refresh_and_load_sessions"
    /\ ~rcall.ok
    /\ Len(rcall.result) = 2
    /\ \E n \in HostFiles : TRUE \in IsCacheValid(TableOf(cache, cli), n, files[n].mtime)

(***************************************************************************)
(* The in-memory session cache: an LruCache, kept here as the list of its  *)
(* entries from the most recently used to the least, at the reduced        *)
(* capacity LruCapacity.  rcall.mem is the history of the calls: a count   *)
(* of the gets and puts, and for each key that a strict least-recently-    *)
(* used cache holds, its value and the count at its last get or put.       *)
(***************************************************************************)

KeyNames == <<"claude:s1", "claude:s2", "codex:s1", "codex:s2", "codex:s3">>
MemKeys == {KeyNames[i] : i \in 1..(LruCapacity + 1)}
MemVals == {"v1", "v2"}

KeysOf(l) == {l[i].key : i \in 1..Len(l)}
Without(l, k) == SelectSeq(l, LAMBDA e : e.key # k)
ValueIn(l, k) == (CHOOSE e \in {l[i] : i \in 1..Len(l)} : e.key = k).val

\* a variant of get that does not move the key
LruGetQuiet(l, k) == l

\* LruCache::get: the key, when held, becomes the most recently used
LruGet(l, k) ==
    IF k \in KeysOf(l) THEN <<[key |-> k, val |-> ValueIn(l, k)]>> \o Without(l, k) ELSE l

\* LruCache::put: the key becomes the most recently used with the new value;
\* a new key into a full cache pushes the least recently used one out
LruPut(l, k, v) ==
    LET rest == Without(l, k)
        kept == IF Len(rest) >= LruCapacity THEN SubSeq(rest, 1, LruCapacity - 1) ELSE rest
    IN  <<[key |-> k, val |-> v]>> \o kept

\* the history after a get, a put, a clear
Oldest(held) == CHOOSE k \in DOMAIN held : \A j \in DOMAIN held : held[k].at <= held[j].at
MemGet(m, k) ==
    [clock |-> m.clock + 1,
     held |-> IF k \in DOMAIN m.held THEN [m.held EXCEPT ![k].at = m.clock + 1] ELSE m.held]
MemPut(m, k, v) ==
    LET base == IF k \notin DOMAIN m.held /\ Cardinality(DOMAIN m.held) >= LruCapacity
                THEN Drop(m.held, {Oldest(m.held)}) ELSE m.held
    IN  [clock |-> m.clock + 1, held |-> Put(base, k, [val |-> v, at |-> m.clock + 1])]
MemClear(m) == [clock |-> m.clock, held |-> <<>>]

MemCall(op, k, result, m) ==
    [HostCall(op, "", k, TRUE, FALSE, result, 0, {}) EXCEPT !.mem = m]

MemIdle == UNCHANGED <<cache, conns, kv, files>> /\ HostIdle

GetSessionFromMemory(k) ==
    /\ rcall.mem.clock < MaxMemCalls
    /\ lru' = LruGet(lru, k)
    /\ rcall' = MemCall("get_session_from_memory", k,
                        IF k \in KeysOf(lru) THEN <<ValueIn(lru, k)>> ELSE <<>>,
                        MemGet(rcall.mem, k))
    /\ MemIdle

SetSessionToMemory(k, v) ==
    /\ rcall.mem.clock < MaxMemCalls
    /\ lru' = LruPut(lru, k, v)
    /\ rcall' = MemCall("set_session_to_memory", k, <<>>, MemPut(rcall.mem, k, v))
    /\ MemIdle

ClearMemoryCache ==
    /\ lru' = <<>>
    /\ rcall' = MemCall("clear_memory_cache", NoPath, <<>>, MemClear(rcall.mem))
    /\ MemIdle

NextLru ==
    \/ \E k \in MemKeys : GetSessionFromMemory(k)
    \/ \E k \in MemKeys, v \in MemVals : SetSessionToMemory(k, v)
    \/ ClearMemoryCache

SpecLru == InitHost /\ [][NextLru]_vars

\* C26: the in-memory session cache is a strict LRU of fixed capacity: it never
\* holds more entries than its capacity; a put of a new key into a full cache
\* evicts exactly the key whose most recent get or put is the oldest; a get
\* returns the value of the last put of its key unless the key was evicted or
\* the cache cleared since; clear_memory_cache empties it
C26_StrictLru ==
    /\ Len(lru) <= LruCapacity
    /\ Cardinality(KeysOf(lru)) = Len(lru)
    /\ KeysOf(lru) = DOMAIN rcall.mem.held
    /\ \A k \in KeysOf(lru) : ValueIn(lru, k) = rcall.mem.held[k].val
    /\ rcall.op = "get_session_from_memory" =>
          rcall.result = IF rcall.arg \in DOMAIN rcall.mem.held
                         THEN <<rcall.mem.held[rcall.arg].val>> ELSE <<>>
    /\ rcall.op = "clear_memory_cache" => lru = <<>>

\* a put of a new key into a full cache: the least recently used key is gone,
\* the other keys stay
C26_Witness ==
    /\ rcall.op = "set_session_to_memory"
    /\ Len(rcall.pre.lru) = LruCapacity
    /\ rcall.arg \notin KeysOf(rcall.pre.lru)
    /\ KeysOf(lru) = (KeysOf(rcall.pre.lru) \ {rcall.pre.lru[LruCapacity].key})
                        \cup {rcall.arg}

(***************************************************************************)
(* clear_cache beside everything it has to leave alone: the caches of both *)
(* supported source types, a startup time, a trashed session and an entry  *)
(* of the in-memory cache.                                                 *)
(***************************************************************************)

Supported == {"claude", "codex"}
ClearPaths == {"d1/a.jsonl"}

NextClear ==
    \/ \E n \in HostFiles : FileWrite(n, 2)
    \/ \E c \in Supported : RefreshAndLoadSessions(c, HostCwd, {TRUE})
    \/ \E c \in Supported : RefreshHistoryOnStartup(c, {TRUE})
    \/ \E c \in Supported : ClearCacheCall(c, {TRUE})
    \/ \E p \in ClearPaths : Delete(p)
    \/ SetSessionToMemory("claude:s1", "v1")

SpecClear == InitHost /\ [][NextClear]_vars

\* C25: clear_cache(type) removes every metadata entry of that source type
\* (afterwards is_cache_valid is false for every path and
\* load_project_from_cache is empty for every project) and leaves unchanged the
\* trash manifest and directories, the recorded last-startup time, the
\* in-memory session cache and the metadata cache of the other source type
C25_ClearCacheFrame ==
    [][rcall' # rcall /\ rcall'.op = "clear_cache" /\ rcall'.ok =>
          /\ \A n \in HostFiles, o \in Mtimes :
                IsCacheValid(TableOf(cache', rcall'.type), n, o) = {FALSE}
          /\ \A c \in Supported :
                LoadProjectFromCache(TableOf(cache', rcall'.type), ProjectIdFor(c), TRUE)
                    = {<<>>}
          /\ UNCHANGED <<live, side, trashDir, dirs, manifest>>
          /\ kv' = kv
          /\ lru' = lru
          /\ \A d \in DOMAIN cache \ {rcall'.type} : cache'[d] = cache[d]]_vars

\* a clear_cache that removes an entry while the other source type has one, a
\* startup time is recorded, a session lies in the trash and the in-memory
\* cache holds an entry
C25_Witness ==
    /\ rcall.op = "clear_cache"
    /\ rcall.count > 0
    /\ RowsNow = {}
    /\ \E d \in Supported \ {rcall.type} : TableOf(cache, d) # {}
    /\ rcall.type \in DOMAIN kv
    /\ manifest.exists /\ manifest.items # <<>>
    /\ lru # <<>>

(***************************************************************************)
(* A malformed line inserted into a log.  pres holds what the operations   *)
(* say of the file before and after the insertion.                         *)
(***************************************************************************)

MalformedLines == {BadLine, BadCwdLine}
InsertedLogs == {"s1.jsonl"}

\* get_project_cwd: the first line with "cwd" in it, of the first file that has
\* one, decides
RECURSIVE GetProjectCwd(_, _)
GetProjectCwd(dir, order) ==
    IF order = <<>> THEN NoCwd
    ELSE IF \E i \in 1..Len(dir[Head(order)]) : dir[Head(order)][i].cwd # NoCwd
         THEN GetCwdFast(dir[Head(order)])
         ELSE GetProjectCwd(dir, Tail(order))

\* a session record without its file size
Sized(r) == [id |-> r.id, file_path |-> r.file_path, cwd |-> r.cwd,
             first_timestamp |-> r.first_timestamp, last_timestamp |-> r.last_timestamp,
             message_count |-> r.message_count, user_turn_count |-> r.user_turn_count]

\* what the operations say of the logs: the working directory of the project,
\* the listings of the project and the parse of the file
Facts(c, dir, n) ==
    [cwd |-> IF c = "claude" THEN {GetProjectCwd(dir, o) : o \in Orders(DOMAIN dir)}
             ELSE {GetCwdFast(dir[n])},
     listing |-> {[i \in 1..Len(l) |-> Sized(l[i])] :
                    l \in LoadProject(c, dir, IF c = "claude" THEN ClaudeProject
                                              ELSE "C:/proj")},
     info |-> LET r == ParseSessionInfo(c, n, dir[n])
              IN  [i \in 1..Len(r) |-> Sized(r[i])]]

InsertAt(lines, pos, ln) ==
    SubSeq(lines, 1, pos - 1) \o <<ln>> \o SubSeq(lines, pos, Len(lines))

InsertLine(n, pos, ln) ==
    /\ Len(logdir[n]) <= MaxLines
    /\ logdir[n] # <<>>
    /\ pos \in 1..(Len(logdir[n]) + 1)
    /\ logdir' = [logdir EXCEPT ![n] = InsertAt(@, pos, ln)]
    /\ pres' = [op |-> "insert_line", id |-> n, limit |-> pos,
                result |-> <<Facts(cli, logdir, n), Facts(cli, logdir', n)>>]
    /\ ParseIdle

NextMalformed ==
    \/ \E n \in InsertedLogs, ln \in Lines : AppendLine(n, ln)
    \/ \E n \in InsertedLogs, pos \in 1..(MaxLines + 1), ln \in MalformedLines :
          InsertLine(n, pos, ln)

SpecMalformed == InitParse /\ [][NextMalformed]_vars

Inserted == pres.op = "insert_line"
InsertedLine == logdir[pres.id][pres.limit]

\* C21: a malformed or unrecognized line never aborts the processing of the
\* rest of its log file: inserting such a line at any position leaves the
\* project and working directory, the inclusion in the listing and the counts
\* and timestamps of the file unchanged, for both source types
C21_MalformedLineHarmless ==
    Inserted => pres.result[1] = pres.result[2]

\* C21, as far as the code goes: the same for a malformed line that does not
\* have "cwd" in its text
C21_PlainMalformedLineHarmless ==
    Inserted /\ InsertedLine = BadLine => pres.result[1] = pres.result[2]

\* a malformed line with "cwd" in it, put before the line that carries the
\* working directory of a session that was listed
C21_Witness ==
    /\ Inserted
    /\ InsertedLine = BadCwdLine
    /\ pres.result[1].info # <<>>
    /\ NoCwd \notin pres.result[1].cwd
    /\ NoCwd \in pres.result[2].cwd

\* a malformed line without "cwd" in it, put into a log that parses to a
\* session with a working directory
C21_WitnessPlain ==
    /\ Inserted
    /\ InsertedLine = BadLine
    /\ pres.limit <= 2
    /\ pres.result[2].info # <<>>
    /\ NoCwd \notin pres.result[2].cwd

(***************************************************************************)
(* delete_session on a log that the metadata cache knows.  The log n of    *)
(* the project is the file HostPath(n) of the installation.                *)
(***************************************************************************)

HostPath(n) == IF n = "s1.jsonl" THEN "d1/a.jsonl" ELSE "d1/rollout-a.jsonl"

\* delete_session of the host: the provider moves the log to the trash and
\* records it in the manifest; no cache function is called
HostDeleteSession(n) ==
    LET r == DeleteSession(Cur, cli, HostPath(n), now) IN
    /\ files[n].present
    /\ live[HostPath(n)] # NoFile
    /\ Become(r.st)
    /\ last' = Call("delete", HostPath(n), ItemName(SessionId(cli, HostPath(n)), now),
                    0, r.ok, 0)
    /\ files' = IF r.ok THEN [files EXCEPT ![n] = NoHostFile] ELSE files
    /\ rcall' = HostCall("delete_session", cli, n, TRUE, ~r.ok, <<>>, 0, {})
    /\ UNCHANGED <<cli, now, ticks, cache, conns, shadow, cres, kv, lru, dblock, mbytes>>
    /\ UNCHANGED <<raceVars, parseVars, pageVars, projVars>>

NextTrashCache ==
    \/ \E n \in HostFiles, k \in Counts : FileWrite(n, k)
    \/ RefreshAndLoadSessions(cli, HostCwd, {TRUE})
    \/ LoadProjectFromCacheCall(cli, ProjectIdFor(cli), {TRUE})
    \/ \E n \in HostFiles : HostDeleteSession(n)

SpecTrashCache == InitHost /\ [][NextTrashCache]_vars

\* the logs that lie in the trash
Trashed == {n \in HostFiles : ~files[n].present /\ live[HostPath(n)] = NoFile}

\* C32: the metadata cache never lists a session that was moved to the trash:
\* after a successful delete_session(path) load_project_from_cache returns no
\* record with that file_path and is_cache_valid is false for that path
C32_TrashedNotCached ==
    \A n \in Trashed :
        /\ \A o \in Observed : IsCacheValid(TableOf(cache, cli), n, o) = {FALSE}
        /\ rcall.op = "load_project_from_cache" =>
              \A i \in 1..Len(rcall.result) : rcall.result[i].file_path # n

\* load_project_from_cache lists a session whose log lies in the trash
C32_Witness ==
    /\ rcall.op = "load_project_from_cache"
    /\ manifest.exists
    /\ \E i \in 1..Len(rcall.result) : rcall.result[i].file_path \in Trashed

(***************************************************************************)
(* Refreshes that overlap.  A refresh is a sequence of steps: the listing  *)
(* of the project, and then for each session get_file_mtime, the test      *)
(* (is_cache_valid, under the lock) and update_cache_entry (under the lock *)
(* again).  loc[q].items are the sessions still to do, loc[q].item is      *)
(* <<last startup time, observed mtime>>.                                  *)
(***************************************************************************)

RefreshFrame ==
    /\ UNCHANGED <<trashVars, parseVars, pageVars, projVars>>
    /\ UNCHANGED <<shadow, cres, files, rcall, lru, dblock, mbytes>>

\* to the next session, or to the end of the loop
NextSession(q, l) ==
    IF Len(l.items) > 1
    THEN Goto(q, "r_mtime", [l EXCEPT !.items = Tail(@)])
    ELSE Finish(q, l.res, [l EXCEPT !.items = <<>>])

\* refresh_and_load_sessions up to the loop: find_project_by_cwd and load_project
RefreshStart(q) ==
    /\ Begin(q)
    /\ \E ss \in (IF FindLive(cli, files, HostCwd) # <<>>
                  THEN LoadProject(cli, HostDir(files), ProjectIdFor(cli)) ELSE {<<>>}) :
          LET l == [NoLoc EXCEPT !.op = "refresh", !.items = ss, !.item = <<-1, 0>>]
          IN  IF ss = <<>> THEN Finish(q, "none", l) ELSE Goto(q, "r_mtime", l)
    /\ UNCHANGED <<cache, conns, kv>>
    /\ RefreshFrame

\* refresh_history_on_startup up to the loop: the startup times, and for Claude
\* list_projects and load_project
StartupStart(q) ==
    /\ Begin(q)
    /\ \E ss \in (IF cli = "claude"
                  THEN LoadProject(cli, HostDir(files), ClaudeProject) ELSE {<<>>}) :
          LET l == [NoLoc EXCEPT !.op = "startup", !.items = ss,
                                 !.item = <<GetLastStartupTime(kv, cli, TRUE), 0>>]
          IN  IF ss = <<>> THEN Finish(q, "none", l) ELSE Goto(q, "r_mtime", l)
    /\ kv' = Put(kv, cli, HostClock)
    /\ conns' = GetDb(conns, cli)
    /\ UNCHANGED cache
    /\ RefreshFrame

\* get_file_mtime
RefreshMtime(q) ==
    /\ pc[q] = "r_mtime"
    /\ Goto(q, "r_valid",
            [loc[q] EXCEPT !.item = <<@[1], files[Head(loc[q].items).file_path].mtime>>])
    /\ UNCHANGED <<calls, overlap, cache, conns, kv>>
    /\ RefreshFrame

\* file_mtime > last_startup && !is_cache_valid(..)
RefreshValid(q) ==
    LET l == loc[q]
        path == Head(l.items).file_path
    IN  /\ pc[q] = "r_valid"
        /\ IF l.item[2] > l.item[1]
              /\ TRUE \notin IsCacheValid(TableOf(cache, cli), path, l.item[2])
           THEN Goto(q, "r_write", l)
           ELSE NextSession(q, l)
        /\ conns' = IF l.item[2] > l.item[1] THEN GetDb(conns, cli) ELSE conns
        /\ UNCHANGED <<calls, overlap, cache, kv>>
        /\ RefreshFrame

\* update_cache_entry with the mtime read before; res tells whether the row it
\* replaced had a later one
RefreshWrite(q) ==
    LET l == loc[q]
        x == Head(l.items)
        tbl == TableOf(cache, cli)
        lowered == \E r \in tbl : r.file_path = x.file_path /\ r.file_mtime > l.item[2]
    IN  /\ pc[q] = "r_write"
        /\ cache' = SetTable(cli, InsertOrReplace(tbl,
                                    CacheRow(cli, ProjectIdFor(cli), x, l.item[2])))
        /\ conns' = GetDb(conns, cli)
        /\ NextSession(q, [l EXCEPT !.wrote = TRUE,
                                    !.res = IF lowered THEN "lowered" ELSE @])
        /\ UNCHANGED <<calls, overlap, kv>>
        /\ RefreshFrame

\* the one log the overlapping refreshes meet, and the lengths it grows to
RaceLogs == {"s1.jsonl"}
RaceCounts == {2, 3}

NextRefreshRace ==
    \/ \E n \in RaceLogs, k \in RaceCounts : FileWrite(n, k)
    \/ HostTick
    \/ \E q \in Procs : RefreshStart(q)
    \/ \E q \in Procs : StartupStart(q)
    \/ \E q \in Procs : RefreshMtime(q)
    \/ \E q \in Procs : RefreshValid(q)
    \/ \E q \in Procs : RefreshWrite(q)

SpecRefreshRace == InitHost /\ [][NextRefreshRace]_vars

NoLowering ==
    \A r \in TableOf(cache, cli), w \in TableOf(cache', cli) :
        r.file_path = w.file_path => w.file_mtime >= r.file_mtime

\* C33: under any interleaving of concurrent refresh_and_load_sessions and
\* refresh_history_on_startup calls the file_mtime stored in the metadata cache
\* for a path never decreases
C33_MtimeNeverDecreases == [][NoLowering]_vars

\* C33, as far as the code goes: the same while no two refreshes have overlapped
C33_MtimeNeverDecreasesSerial == [][~overlap' => NoLowering]_vars

\* a refresh has replaced a row by one of an earlier mtime
C33_Witness == \E q \in Procs : loc[q].res = "lowered"

\* refreshes one after the other have written the row of a log twice
C33_WitnessSerial ==
    /\ ~overlap
    /\ calls >= 2
    /\ AllResting
    /\ \A q \in Procs : loc[q].wrote
    /\ \E r \in TableOf(cache, cli) : r.file_mtime = 2

(***************************************************************************)
(* Cache operations that overlap, step by step: get_db takes the mutex of  *)
(* DB_CONNECTIONS, opens the connection when the map has none for the      *)
(* source type and lets the mutex go as it returns; the operation then     *)
(* takes the mutex again for its statement.  loc[q].dir is the source type *)
(* of the call.                                                            *)
(***************************************************************************)

LockedOps == {"is_cache_valid", "update_cache_entry", "load_project_from_cache",
              "clear_cache"}
LockPath == "d1/a.jsonl"

\* a variant in which get_db returns with the mutex still held
DropGuardNever(g) == g

\* the MutexGuard goes out of scope
DropGuard(g) == [g EXCEPT !.holder = 0]

OpenedTimes(g, c) == IF c \in DOMAIN g.opened THEN g.opened[c] ELSE 0

LockFrame ==
    /\ UNCHANGED <<trashVars, parseVars, pageVars, projVars>>
    /\ UNCHANGED <<shadow, cres, kv, files, rcall, lru, mbytes>>

\* DB_CONNECTIONS.lock(): waits while another caller holds the mutex; a caller
\* that holds it itself never gets it
Lock(q, then) ==
    IF dblock.holder = q
    THEN /\ Goto(q, "stuck", loc[q])
         /\ UNCHANGED dblock
    ELSE /\ dblock.holder = 0
         /\ dblock' = [dblock EXCEPT !.holder = q]
         /\ Goto(q, then, loc[q])

OpStart(q, op, c) ==
    /\ Begin(q)
    /\ Goto(q, "g_lock", [NoLoc EXCEPT !.op = op, !.dir = c, !.path = LockPath])
    /\ UNCHANGED <<cache, conns, dblock>>
    /\ LockFrame

GetDbLock(q) ==
    /\ pc[q] = "g_lock"
    /\ Lock(q, "g_init")
    /\ UNCHANGED <<calls, overlap, cache, conns>>
    /\ LockFrame

\* if !conns.contains_key(cli_type) { init_db; insert }, and the return
GetDbInit(q) ==
    LET c == loc[q].dir
        g == IF c \in conns THEN dblock
             ELSE [dblock EXCEPT !.opened = Put(@, c, OpenedTimes(dblock, c) + 1)]
    IN  /\ pc[q] = "g_init"
        /\ conns' = GetDb(conns, c)
        /\ dblock' = DropGuard(g)
        /\ Goto(q, "o_lock", loc[q])
        /\ UNCHANGED <<calls, overlap, cache>>
        /\ LockFrame

OpLock(q) ==
    /\ pc[q] = "o_lock"
    /\ Lock(q, "o_run")
    /\ UNCHANGED <<calls, overlap, cache, conns>>
    /\ LockFrame

\* conns.get(cli_type) and the statement, then the return
OpRun(q) ==
    LET l == loc[q]
        c == l.dir
    IN  /\ pc[q] = "o_run"
        /\ cache' = CASE l.op = "update_cache_entry" ->
                           [cache EXCEPT ![c] = InsertOrReplace(@,
                                  [file_path |-> l.path, file_mtime |-> 1])]
                      [] l.op = "clear_cache" -> [cache EXCEPT ![c] = {}]
                      [] OTHER -> cache
        /\ dblock' = DropGuard(dblock)
        /\ Finish(q, IF c \in conns THEN "ok" ELSE "io", [l EXCEPT !.wrote = TRUE])
        /\ UNCHANGED <<calls, overlap, conns>>
        /\ LockFrame

NextLock ==
    \/ \E q \in Procs, op \in LockedOps, c \in CacheClis : OpStart(q, op, c)
    \/ \E q \in Procs : GetDbLock(q)
    \/ \E q \in Procs : GetDbInit(q)
    \/ \E q \in Procs : OpLock(q)
    \/ \E q \in Procs : OpRun(q)

SpecLock == InitHost /\ [][NextLock]_vars

\* the callers that are at the map or at the connection
AtConnection == {q \in Procs : pc[q] \in {"g_init", "o_run"}}

\* C31: under any interleaving of concurrent cache operations the connection of
\* a source type is initialized at most once and never replaced or removed,
\* every read or write on it runs while the exclusive lock is held so that no
\* two cache operations overlap, and no operation tries to take the lock while
\* already holding it
C31_ConnectionSingleton ==
    [][/\ \A c \in CacheClis : OpenedTimes(dblock', c) <= 1
       /\ \A c \in CacheClis : c \in conns' <=> OpenedTimes(dblock', c) = 1
       /\ conns \subseteq conns'
       /\ \A q \in AtConnection' : dblock'.holder = q
       /\ Cardinality(AtConnection') <= 1
       /\ \A q \in Procs : pc'[q] # "stuck"
       /\ \A q \in Procs : pc'[q] = "done" /\ loc'[q].wrote => loc'[q].res = "ok"]_vars

\* a caller waits for the mutex while the other one, which opened the connection
\* both use, runs its statement, after calls have overlapped
C31_Witness ==
    /\ overlap
    /\ \E q \in Procs, r \in Procs :
          /\ pc[q] = "o_run"
          /\ pc[r] \in {"g_lock", "o_lock"}
          /\ loc[q].dir = loc[r].dir
          /\ OpenedTimes(dblock, loc[q].dir) = 1

\* a refresh that started from an empty cache and found a project
RefreshedFromEmpty == Refreshed /\ RowsBefore = {} /\ rcall.result # <<>>

\* what load_project_from_cache says of the project after the refresh
CachedListings == LoadProjectFromCache(RowsNow, ProjectIdFor(rcall.type), TRUE)

SameSessions(l, m) ==
    /\ {l[i].file_path : i \in 1..Len(l)} = {m[i].file_path : i \in 1..Len(m)}
    /\ \A i \in 1..Len(l), j \in 1..Len(m) :
          l[i].file_path = m[j].file_path =>
              /\ l[i].message_count = m[j].message_count
              /\ l[i].user_turn_count = m[j].user_turn_count
              /\ l[i].first_timestamp = m[j].first_timestamp
              /\ l[i].last_timestamp = m[j].last_timestamp

\* C34: starting from an empty cache, after refresh_and_load_sessions finds a
\* project and all cache writes succeed, load_project_from_cache of that project
\* returns records for exactly the file paths the refresh returned, with the
\* same counts and timestamps, for both source types
C34_CacheReproducesListing ==
    RefreshedFromEmpty => \A l \in CachedListings : SameSessions(l, rcall.result)

\* C34, as far as the code goes: the same for the Claude source type
C34_CacheReproducesClaudeListing ==
    RefreshedFromEmpty /\ rcall.type = "claude"
        => \A l \in CachedListings : SameSessions(l, rcall.result)

\* a Codex refresh from an empty cache returns a session of one message
C34_Witness ==
    /\ RefreshedFromEmpty
    /\ rcall.type = "codex"
    /\ \E i \in 1..Len(rcall.result) : rcall.result[i].message_count = 1

\* a Claude refresh from an empty cache returns two sessions
C34_WitnessClaude ==
    /\ RefreshedFromEmpty
    /\ rcall.type = "claude"
    /\ Len(rcall.result) = 2

----------------------------------------------------------------------------
(* restore_from_trash onto a path the CLI has written again.               *)

\* the bytes of a log the CLI wrote anew at a path whose session was trashed
Rewritten == "rewritten"

\* the CLI writes a log at a path that is free (a session resumed after its
\* log was moved to the trash); one such log at a time, which keeps the
\* manifest finite
CliRewrites(p) ==
    /\ live[p] = NoFile
    /\ \A q \in Paths : live[q] # Rewritten
    /\ \A d \in DOMAIN dirs : \A fn \in DOMAIN dirs[d].files : dirs[d].files[fn] # Rewritten
    /\ live' = [live EXCEPT ![p] = Rewritten]
    /\ last' = Call("write", p, EmptyName, 0, TRUE, 0)
    /\ UNCHANGED <<cli, now, ticks, side, trashDir, dirs, manifest>>
    /\ TrashIdle

\* the logs this specification deletes, and the one the CLI writes again
RewriteDeletes == {"d1/a.jsonl", "d2/a.jsonl"}
RewritePaths == {"d1/a.jsonl"}

NextRewrite ==
    \/ \E p \in RewriteDeletes : Delete(p)
    \/ \E d \in DirInputs : Restore(d)
    \/ \E p \in RewritePaths : CliRewrites(p)
    \/ Tick(1)

SpecRewrite == Init /\ [][NextRewrite]_vars

\* the last call was a restore of an item that is listed and has its
\* subdirectory, called while a file stood at the item's original path
RestoreOntoFile ==
    /\ last.op = "restore"
    /\ RestoreLookup(last.pre.manifest, last.dir) = "found"
    /\ ItemDirExists(last.pre.dirs, last.dir)
    /\ last.pre.live[FirstEntry(last.pre.manifest, last.dir).original_file] # NoFile

RestoredPath == FirstEntry(last.pre.manifest, last.dir).original_file

\* the logs the trash subdirectory held when restore was called
TrashedCopies ==
    {last.pre.dirs[last.dir].files[fn] : fn \in DOMAIN last.pre.dirs[last.dir].files}

ItemIntact ==
    /\ ItemDirExists(dirs, last.dir)
    /\ dirs[last.dir] = last.pre.dirs[last.dir]
    /\ manifest = last.pre.manifest

\* C35: if a file already exists at the item's original path when
\* restore_from_trash is called, that file is still present with its content
\* afterwards and the trashed copy is not lost: the call either fails leaving
\* the trash item intact or keeps both
C35_RestoreKeepsExistingFile ==
    RestoreOntoFile =>
        /\ live[RestoredPath] = last.pre.live[RestoredPath]
        /\ \/ ~last.ok /\ ItemIntact
           \/ \A c \in TrashedCopies : \E p \in Paths : live[p] = c

\* C35, as far as the code goes: restore_from_trash leaves every log other
\* than the one at the item's original path as it was
C35_RestoreKeepsOtherFiles ==
    last.op = "restore" /\ RestoreLookup(last.pre.manifest, last.dir) = "found"
        => \A p \in Paths \ {RestoredPath} : live[p] = last.pre.live[p]

\* a restore onto a rewritten log whose trashed copy differs from it
C35_Witness ==
    /\ RestoreOntoFile
    /\ last.ok
    /\ last.pre.live[RestoredPath] = Rewritten
    /\ ContentOf(RestoredPath) \in TrashedCopies

\* a successful restore while another log stands at its own path
C35_WitnessOthers ==
    /\ RestoreOntoFile
    /\ last.ok
    /\ \E p \in Paths \ {RestoredPath} : live[p] # NoFile

----------------------------------------------------------------------------
(* permanently_delete of a relative name.                                  *)

\* the dirName ".."
DotDot == <<"..">>

\* everything below the provider's base directory removed
BaseRemoved(S) ==
    [live |-> [p \in Paths |-> NoFile],
     side |-> [h \in HistoryDirs |-> NoFile],
     trashDir |-> FALSE,
     dirs |-> EmptyFn,
     manifest |-> NoManifest]

\* permanently_delete(".."): trash_dir.join("..") names the base directory,
\* which holds the projects and the trash. With the trash directory present the
\* path exists and remove_dir_all empties the base directory; its last step,
\* removing the path itself, goes through the trash directory that is gone by
\* then, so the call may end in an error. Without the trash directory the path
\* exists where paths are resolved lexically and does not exist elsewhere.
PermanentlyDeleteDots(S) ==
    IF S.trashDir
    THEN {[ok |-> o, st |-> BaseRemoved(S)] : o \in BOOLEAN}
    ELSE {[ok |-> TRUE, st |-> S]} \cup {[ok |-> o, st |-> BaseRemoved(S)] : o \in BOOLEAN}

PurgeDots ==
    \E r \in PermanentlyDeleteDots(Cur) :
        /\ Become(r.st)
        /\ last' = Call("purge", NoPath, DotDot, 0, r.ok, 0)
        /\ UNCHANGED <<cli, now, ticks>>
        /\ TrashIdle

NextPurge ==
    \/ \E p \in Paths : Delete(p)
    \/ \E d \in DirInputs : Purge(d)
    \/ PurgeDots
    \/ \E j \in Jumps : Tick(j)

SpecPurge == Init /\ [][NextPurge]_vars

\* the items of S other than those named d, in order
OtherItems(S, d) == RetainOthers(ItemsOf(S), d)

\* every other item keeps its manifest entry and its subdirectory with contents,
\* and nothing outside the trash is removed
OnlyNamedItemAffected ==
    /\ OtherItems(Cur, last.dir) = OtherItems(last.pre, last.dir)
    /\ \A d \in DOMAIN last.pre.dirs \ {last.dir} :
          d \in DOMAIN dirs /\ dirs[d] = last.pre.dirs[d]
    /\ live = last.pre.live
    /\ side = last.pre.side

\* C36: permanently_delete(dirName) affects only the named item, for every
\* dirName (one that matches no item, the empty string and ".." included):
\* every other TrashItem keeps its manifest entry and its trash subdirectory
\* with contents, and nothing outside the trash directory is removed
C36_PurgeAffectsOnlyNamed ==
    last.op = "purge" => OnlyNamedItemAffected

\* C36, as far as the code goes: the same for a dirName that is neither empty
\* nor ".."
C36_PurgeOfPlainName ==
    last.op = "purge" /\ last.dir \notin {EmptyName, DotDot} => OnlyNamedItemAffected

\* permanently_delete("") while the trash holds an item
C36_Witness ==
    /\ last.op = "purge"
    /\ last.dir = EmptyName
    /\ ItemsOf(last.pre) # <<>>

\* permanently_delete of a listed item while another item is in the trash
C36_WitnessPlain ==
    /\ last.op = "purge"
    /\ HasEntry(last.pre.manifest, last.dir)
    /\ OtherItems(last.pre, last.dir) # <<>>
    /\ last.dir \notin DOMAIN dirs

\* permanently_delete("..") while a log is in place
C36_WitnessDots ==
    /\ last.op = "purge"
    /\ last.dir = DotDot
    /\ \E p \in Paths : last.pre.live[p] # NoFile /\ live[p] = NoFile

----------------------------------------------------------------------------
(* The trash calls on a manifest.json whose bytes do not parse.  While the  *)
(* bytes are garbled, manifest.items tells what they recorded before.       *)

\* delete_session: read_to_string(..).unwrap_or_default() and
\* from_str(..).unwrap_or(TrashManifest { items: Vec::new() }) make an empty
\* manifest of bytes that do not parse; the new item is pushed and written
DeleteSessionGarbled(S, c, p, t) ==
    IF S.live[p] = NoFile
    THEN DeleteMissing(S)
    ELSE DeleteSession([S EXCEPT !.manifest.items = <<>>], c, p, t)

\* restore_from_trash: from_str fails and the error is returned before any move
RestoreFromTrashGarbled(S, d) == [ok |-> FALSE, st |-> S]

\* permanently_delete: the subdirectory is removed first, then from_str fails;
\* for the empty name the manifest went with the trash directory and the call
\* succeeds
PermanentlyDeleteGarbled(S, d) ==
    IF d = EmptyName
    THEN PermanentlyDelete(S, d)
    ELSE [ok |-> FALSE, st |-> [S EXCEPT !.dirs = Drop(S.dirs, {d})]]

\* cleanup_expired_trash: from_str fails and the error is returned
CleanupExpiredTrashGarbled(S) == [ok |-> FALSE, removed |-> 0, st |-> S]

GarbledFrame ==
    /\ UNCHANGED <<cli, now, ticks>>
    /\ UNCHANGED <<raceVars, cacheVars, parseVars, pageVars, projVars>>
    /\ UNCHANGED <<kv, files, rcall, lru, dblock>>

\* the bytes of a written manifest get damaged (fs::write is not atomic: a
\* crash or a full disk leaves a partial file)
Garble ==
    /\ manifest.exists
    /\ manifest.items # <<>>
    /\ mbytes = Parses
    /\ mbytes' = Garbled
    /\ UNCHANGED <<live, side, trashDir, dirs, manifest, last>>
    /\ GarbledFrame

\* what the bytes of the manifest are after a call that left state S
BytesAfter(S, wrote) == IF wrote \/ ~S.manifest.exists THEN Parses ELSE Garbled

DeleteGarbled(p) ==
    LET r == DeleteSessionGarbled(Cur, cli, p, now) IN
    /\ mbytes = Garbled
    /\ Become(r.st)
    /\ mbytes' = BytesAfter(r.st, r.ok)
    /\ last' = Call("delete", p, ItemName(SessionId(cli, p), now), 0, r.ok, 0)
    /\ GarbledFrame

RestoreGarbled(d) ==
    LET r == RestoreFromTrashGarbled(Cur, d) IN
    /\ mbytes = Garbled
    /\ Become(r.st)
    /\ mbytes' = BytesAfter(r.st, r.ok)
    /\ last' = Call("restore", NoPath, d, 0, r.ok, 0)
    /\ GarbledFrame

PurgeGarbled(d) ==
    LET r == PermanentlyDeleteGarbled(Cur, d) IN
    /\ mbytes = Garbled
    /\ Become(r.st)
    /\ mbytes' = BytesAfter(r.st, r.ok)
    /\ last' = Call("purge", NoPath, d, 0, r.ok, 0)
    /\ GarbledFrame

CleanupGarbled(days) ==
    LET r == CleanupExpiredTrashGarbled(Cur) IN
    /\ mbytes = Garbled
    /\ Become(r.st)
    /\ mbytes' = BytesAfter(r.st, r.ok)
    /\ last' = Call("cleanup", NoPath, EmptyName, days, r.ok, r.removed)
    /\ GarbledFrame

NextGarbled ==
    \/ \E p \in Paths : mbytes = Parses /\ Delete(p)
    \/ \E d \in DirInputs : mbytes = Parses /\ Restore(d)
    \/ Garble
    \/ \E p \in Paths : DeleteGarbled(p)
    \/ \E d \in DirInputs : RestoreGarbled(d)
    \/ \E d \in DirInputs : PurgeGarbled(d)
    \/ \E n \in RetentionDays : CleanupGarbled(n)
    \/ \E j \in Jumps : Tick(j)

SpecGarbled == Init /\ [][NextGarbled]_vars

\* this step is a call of one of ops made while the manifest does not parse
GarbledCall(ops) ==
    /\ mbytes = Garbled
    /\ last' # last
    /\ last'.op \in ops

RefusedUntouched ==
    /\ ~last'.ok
    /\ manifest' = manifest
    /\ mbytes' = mbytes

\* C37: a manifest that exists but cannot be read or parsed is never silently
\* overwritten: delete_session, like restore_from_trash, permanently_delete and
\* cleanup_expired_trash, then returns an error and leaves manifest.json
\* unchanged, so the items recorded before are not dropped
C37_GarbledManifestKept ==
    [][GarbledCall({"delete", "restore", "purge", "cleanup"}) => RefusedUntouched]_vars

\* C37, as far as the code goes: restore_from_trash, cleanup_expired_trash and
\* permanently_delete of a non-empty name return an error and leave
\* manifest.json unchanged
C37_GarbledManifestKeptByOthers ==
    [][GarbledCall({"restore", "purge", "cleanup"})
         /\ (last'.op = "purge" => last'.dir # EmptyName)
       => RefusedUntouched]_vars

\* delete_session has succeeded on a manifest that did not parse: the manifest
\* lists the new item alone, the items recorded before are dropped
C37_Witness ==
    /\ last.op = "delete"
    /\ last.ok
    /\ mbytes = Parses
    /\ Len(last.pre.manifest.items) >= 1
    /\ Len(manifest.items) = 1

\* restore_from_trash of a listed item has failed on a manifest that does not parse
C37_WitnessOthers ==
    /\ last.op = "restore"
    /\ ~last.ok
    /\ mbytes = Garbled
    /\ HasEntry(manifest, last.dir)
    /\ ItemDirExists(dirs, last.dir)

----------------------------------------------------------------------------
(* load_session: the full parse of a log, beside the quick one.            *)

\* parse_message / parse_codex_message: the Message of a decoded line, <<>> is None
ParseMessage(c, ln) ==
    IF c = "claude"
    THEN IF ln.type \in {"user", "assistant"}
         THEN <<[real |-> ln.type = "user" /\ ~ln.tool, ts |-> ln.ts]>>
         ELSE <<>>
    ELSE IF ln.type \in {"item", "user", "assistant"}
         THEN <<[real |-> ln.type = "user", ts |-> ln.ts]>>
         ELSE <<>>

NoSession == [messages |-> <<>>, first_ts |-> NoTs, last_ts |-> NoTs, cwd |-> NoCwd]

\* one pass of the loop body of parse_session_file: only a blank or unreadable
\* line and one that is not JSON are skipped
FileStep(c, acc, ln) ==
    IF ln.kind = "bad" THEN acc
    ELSE [acc EXCEPT !.cwd = IF @ = NoCwd THEN ln.cwd ELSE @,
                     !.first_ts = IF ln.ts # NoTs /\ @ = NoTs THEN ln.ts ELSE @,
                     !.last_ts = IF ln.ts # NoTs THEN ln.ts ELSE @,
                     !.messages = @ \o ParseMessage(c, ln)]

RECURSIVE FileFold(_, _, _)
FileFold(c, lines, acc) ==
    IF lines = <<>> THEN acc
    ELSE FileFold(c, Tail(lines), FileStep(c, acc, Head(lines)))

\* parse_session_file: <<>> is None
ParseSessionFile(c, n, lines) ==
    LET s == FileFold(c, lines, NoSession) IN
    IF s.messages = <<>> THEN <<>>
    ELSE << [info |-> [id |-> IF c = "codex" THEN LogStripRollout(LogStem(n)) ELSE LogStem(n),
                       file_path |-> n,
                       cwd |-> s.cwd,
                       first_timestamp |-> s.first_ts,
                       last_timestamp |-> s.last_ts,
                       message_count |-> Len(s.messages),
                       user_turn_count |-> Len(SelectSeq(s.messages, LAMBDA m : m.real)),
                       file_size |-> Len(lines)],
             messages |-> s.messages] >>

\* load_session(file_path)
LoadSessionCall(n) ==
    /\ pres' = [op |-> "load_session", id |-> n, limit |-> 0,
                result |-> ParseSessionFile(cli, n, logdir[n])]
    /\ UNCHANGED logdir
    /\ ParseIdle

NextLoad ==
    \/ \E n \in LogNames, ln \in Lines : AppendLine(n, ln)
    \/ \E n \in LogNames : LoadSessionCall(n)

SpecLoad == InitParse /\ [][NextLoad]_vars

\* the records load_project returns for the log that load_session was called on
ListedRecords(n) ==
    UNION {UNION {{l[i] : i \in {j \in 1..Len(l) : l[j].file_path = n}} :
                     l \in LoadProject(cli, logdir, id)} : id \in ProjectIds}

\* load_session's answer agrees with the record r of the listing
Agrees(r) ==
    /\ pres.result # <<>>
    /\ LET s == pres.result[1] IN
       /\ s.info.message_count = r.message_count
       /\ s.info.user_turn_count = r.user_turn_count
       /\ s.info.first_timestamp = r.first_timestamp
       /\ s.info.last_timestamp = r.last_timestamp
       /\ s.info.cwd = r.cwd
       /\ Len(s.messages) = r.message_count
       /\ Cardinality({i \in 1..Len(s.messages) : s.messages[i].real}) = r.user_turn_count

HasMarkerLine(n) == \E i \in 1..Len(logdir[n]) : logdir[n][i].marker

\* C38: for every log for which load_project returns a SessionRecord,
\* load_session on the same path returns a Session whose info has the same
\* message_count, user_turn_count, first and last timestamp and working
\* directory, whose messages list has message_count elements and whose number
\* of is_real_user messages equals user_turn_count, for both source types
C38_QuickAndFullParseAgree ==
    pres.op = "load_session" => \A r \in ListedRecords(pres.id) : Agrees(r)

\* C38, as far as the code goes: the same for Codex logs and for Claude logs
\* without an interruption-marker line
C38_ParsesAgreeWithoutMarker ==
    pres.op = "load_session" /\ (cli = "codex" \/ ~HasMarkerLine(pres.id))
        => \A r \in ListedRecords(pres.id) : Agrees(r)

\* load_session of a listed Claude log that holds an interruption-marker line
C38_Witness ==
    /\ pres.op = "load_session"
    /\ cli = "claude"
    /\ HasMarkerLine(pres.id)
    /\ ListedRecords(pres.id) # {}
    /\ pres.result # <<>>

\* load_session of a listed Claude log of three messages without marker line
C38_WitnessClaude ==
    /\ pres.op = "load_session"
    /\ cli = "claude"
    /\ ~HasMarkerLine(pres.id)
    /\ \E r \in ListedRecords(pres.id) : r.message_count = 3

\* load_session of a listed Codex log of two or more messages
C38_WitnessCodex ==
    /\ pres.op = "load_session"
    /\ cli = "codex"
    /\ \E r \in ListedRecords(pres.id) : r.message_count >= 2

----------------------------------------------------------------------------
(* Search beside the listing, for the Claude source type.                  *)

\* the records load_project returns for the project directory of the logs
ClaudeListing ==
    UNION {{l[i] : i \in 1..Len(l)} : l \in LoadProject("claude", logdir, ClaudeProject)}

ClaudeSearched == pres.op = "search" /\ cli = "claude"

\* C39: for the Claude source type every record returned by search(keyword,
\* limit) is also returned by load_project of the project directory that
\* contains its file, so search never returns a sub-task file (name starting
\* with "agent-") or a session with a single real user turn
C39_SearchWithinListing ==
    ClaudeSearched =>
        /\ Returned \subseteq ClaudeListing
        /\ \A r \in Returned : ~IsAgentFile(r.file_path) /\ r.user_turn_count > 1

\* C39, as far as the code goes: the records search returns that are not of a
\* sub-task file and have more than one real user turn are records of the listing
C39_AdmittedHitsWithinListing ==
    ClaudeSearched =>
        \A r \in Returned :
            ~IsAgentFile(r.file_path) /\ r.user_turn_count > 1 => r \in ClaudeListing

\* a Claude search has returned a sub-task file
C39_Witness ==
    /\ ClaudeSearched
    /\ \E r \in Returned : IsAgentFile(r.file_path)

\* a Claude search has returned a session of one real user turn
C39_WitnessOneTurn ==
    /\ ClaudeSearched
    /\ \E r \in Returned : ~IsAgentFile(r.file_path) /\ r.user_turn_count = 1

\* a Claude search has returned a session that the listing admits
C39_WitnessAdmitted ==
    /\ ClaudeSearched
    /\ \E r \in Returned : ~IsAgentFile(r.file_path) /\ r.user_turn_count > 1

====
